---------------------------- MODULE Spec2Model ----------------------------
(***************************************************************************)
(* A model of the hodalabs bookkeeping dashboard: the transactions table   *)
(* with its two partial unique indexes, the check-duplicates matcher, the  *)
(* save-transactions / import-stripe-csv / import-bank-csv endpoints, and  *)
(* the import page that drives them.                                       *)
(*                                                                         *)
(* Strings are sequences of one-character strings, so that toLowerCase,    *)
(* trim and .length are computed and not assumed.  null / undefined is the *)
(* value Null; "" is the empty sequence; both are falsy, as in JavaScript. *)
(***************************************************************************)
EXTENDS Integers, Sequences, FiniteSets, TLC

VARIABLES
    ledger,   \* the rows of the transactions table, in heap (insertion) order
    req,      \* the request in flight (SpecMatch: the check-duplicates body)
    resp,     \* the response of the handler that ran last, NoResp when idle
    page      \* the import page's React state (SpecPage)

vars == <<ledger, req, resp, page>>

-----------------------------------------------------------------------------
(* Bounds of the model *)

MaxLedger == 2
MaxBatch == 2

-----------------------------------------------------------------------------
(* JavaScript values and string operations *)

Null == <<"null">>

Truthy(s) == s # Null /\ s # <<>>

\* a || b
Or(a, b) == IF Truthy(a) THEN a ELSE b

LowerChar(c) ==
    CASE c = "A" -> "a" [] c = "B" -> "b" [] c = "C" -> "c" [] c = "D" -> "d"
      [] c = "K" -> "k" [] c = "L" -> "l" [] c = "N" -> "n" [] c = "O" -> "o"
      [] c = "S" -> "s" [] c = "U" -> "u" [] OTHER -> c

toLowerCase(s) == [i \in 1..Len(s) |-> LowerChar(s[i])]

RECURSIVE trimStart(_)
trimStart(s) == IF s # <<>> /\ Head(s) = " " THEN trimStart(Tail(s)) ELSE s

RECURSIVE trimEnd(_)
trimEnd(s) ==
    IF s # <<>> /\ s[Len(s)] = " " THEN trimEnd(SubSeq(s, 1, Len(s) - 1)) ELSE s

trim(s) == trimEnd(trimStart(s))

Abs(n) == IF n < 0 THEN -n ELSE n

\* all sequences over S of length lo..hi
SeqsOf(S, lo, hi) == UNION {[1..n -> S] : n \in lo..hi}

-----------------------------------------------------------------------------
(* Identifiers and currencies the model draws from *)

idA  == <<"a", "b">>
idAU == <<"A", "B">>
idAW == <<" ", "a", "b">>
idC  == <<"c">>
idL  == <<"l", "l", "l", "l", "l", "l", "l", "l">>

usd == <<"u", "s", "d">>
USD == <<"U", "S", "D">>
nok == <<"n", "o", "k">>

-----------------------------------------------------------------------------
(* check-duplicates: the matcher *)

\* Tier-3 length tolerance
LenTolerance == 5

normalizePaymentId(id) == trim(toLowerCase(id))

paymentIdsMatch(id1, id2) == normalizePaymentId(id1) = normalizePaymentId(id2)

archiveRefsMatch(extracted, dbTransaction) ==
    /\ Truthy(extracted.archive_reference)
    /\ Truthy(dbTransaction.archive_reference)
    /\ normalizePaymentId(extracted.archive_reference)
         = normalizePaymentId(dbTransaction.archive_reference)

stripeIdsMatch(extracted, dbTransaction) ==
    /\ Truthy(extracted.stripe_payment_id)
    /\ Truthy(dbTransaction.source_reference)
    /\ paymentIdsMatch(extracted.stripe_payment_id, dbTransaction.source_reference)

\* mutant: the length tolerance tested with < instead of <=
amountCurrencyMatch_StrictTolerance(extracted, dbTransaction) ==
    /\ extracted.amount = dbTransaction.amount
    /\ normalizePaymentId(extracted.currency) = normalizePaymentId(dbTransaction.currency)
    /\ LET extractedId == Or(Or(extracted.stripe_payment_id, extracted.archive_reference), <<>>)
           dbId == Or(Or(dbTransaction.source_reference, dbTransaction.archive_reference), <<>>)
       IN  /\ Truthy(extractedId)
           /\ Truthy(dbId)
           /\ Abs(Len(extractedId) - Len(dbId)) < LenTolerance

amountCurrencyMatch(extracted, dbTransaction) ==
    /\ extracted.amount = dbTransaction.amount
    /\ normalizePaymentId(extracted.currency) = normalizePaymentId(dbTransaction.currency)
    /\ LET extractedId == Or(Or(extracted.stripe_payment_id, extracted.archive_reference), <<>>)
           dbId == Or(Or(dbTransaction.source_reference, dbTransaction.archive_reference), <<>>)
       IN  /\ Truthy(extractedId)
           /\ Truthy(dbId)
           /\ Abs(Len(extractedId) - Len(dbId)) <= LenTolerance

transactionMatches(extracted, dbTransaction) ==
    \/ archiveRefsMatch(extracted, dbTransaction)
    \/ stripeIdsMatch(extracted, dbTransaction)
    \/ amountCurrencyMatch(extracted, dbTransaction)


\* route.ts:73-79: the candidates check-duplicates accepts
IsValidTransaction(t) ==
    /\ \/ Truthy(t.stripe_payment_id)
       \/ Truthy(t.archive_reference)
       \/ Truthy(t.bank_reference)
    /\ t.amount \in Int
    /\ Truthy(t.currency)

validTransactions(transactions) == SelectSeq(transactions, IsValidTransaction)

\* route.ts:118: the identifier a candidate is reported under
extractedIdOf(extracted) ==
    Or(Or(Or(extracted.archive_reference, extracted.stripe_payment_id),
          extracted.bank_reference), <<>>)

\* route.ts:122
dbIdOf(dbTxn) == Or(Or(dbTxn.archive_reference, dbTxn.source_reference), <<>>)

\* mutant: the heuristic tier is reported whenever it holds
matchTypeOf_HeuristicFirst(extracted, dbTxn) ==
    IF amountCurrencyMatch(extracted, dbTxn) THEN "amount_currency"
    ELSE IF Truthy(extracted.archive_reference) /\ Truthy(dbTxn.archive_reference)
    THEN "archive_reference"
    ELSE IF Truthy(extracted.stripe_payment_id) /\ Truthy(dbTxn.source_reference)
         THEN (IF paymentIdsMatch(extracted.stripe_payment_id, dbTxn.source_reference)
               THEN "payment_id" ELSE "amount_currency")
         ELSE "amount_currency"

\* route.ts:124-133
matchTypeOf(extracted, dbTxn) ==
    IF Truthy(extracted.archive_reference) /\ Truthy(dbTxn.archive_reference)
    THEN "archive_reference"
    ELSE IF Truthy(extracted.stripe_payment_id) /\ Truthy(dbTxn.source_reference)
         THEN (IF paymentIdsMatch(extracted.stripe_payment_id, dbTxn.source_reference)
               THEN "payment_id" ELSE "amount_currency")
         ELSE "amount_currency"

\* route.ts:120-147: the inner loop; the index of the row the scan stops at, 0 if none
RECURSIVE firstMatchFrom(_, _, _)
firstMatchFrom(extracted, rows, i) ==
    IF i > Len(rows) THEN 0
    ELSE IF transactionMatches(extracted, rows[i]) THEN i
    ELSE firstMatchFrom(extracted, rows, i + 1)

\* mutant: the scan goes on to the last row that matches
firstMatch_Last(extracted, rows) ==
    IF \A k \in 1..Len(rows) : ~transactionMatches(extracted, rows[k]) THEN 0
    ELSE CHOOSE k \in 1..Len(rows) :
             /\ transactionMatches(extracted, rows[k])
             /\ \A n \in (k + 1)..Len(rows) :
                    ~transactionMatches(extracted, rows[n])

firstMatch(extracted, rows) == firstMatchFrom(extracted, rows, 1)

matchDetailOf(extracted, dbTxn) ==
    [extractedId |-> extractedIdOf(extracted),
     matchedId   |-> dbIdOf(dbTxn),
     matchType   |-> matchTypeOf(extracted, dbTxn)]

\* route.ts:116-148: the outer loop, matchDetails.push in candidate order
RECURSIVE matchDetailsOf(_, _)
matchDetailsOf(valid, rows) ==
    IF valid = <<>> THEN <<>>
    ELSE LET k == firstMatch(Head(valid), rows)
         IN  (IF k = 0 THEN <<>> ELSE <<matchDetailOf(Head(valid), rows[k])>>)
             \o matchDetailsOf(Tail(valid), rows)

\* mutant: the identifier is added as extracted, not normalized
matchedExtractedIdsOf_Raw(valid, rows) ==
    {extractedIdOf(valid[i]) :
        i \in {j \in 1..Len(valid) : firstMatch(valid[j], rows) # 0}}

\* route.ts:135
matchedExtractedIdsOf(valid, rows) ==
    {normalizePaymentId(extractedIdOf(valid[i])) :
        i \in {j \in 1..Len(valid) : firstMatch(valid[j], rows) # 0}}

CheckResp(status, error, readError, hasMatches, ids, details) ==
    [op |-> "check-duplicates", status |-> status, error |-> error,
     readError |-> readError, hasMatches |-> hasMatches,
     matchedExtractedIds |-> ids, matchDetails |-> details]

\* the module keeps the details of every request it has answered
checkDuplicatesPOST_Carrying(body, rows, readError) ==
    IF ~body.isArray
    THEN CheckResp(400, "Transactions array is required", FALSE, FALSE, {}, <<>>)
    ELSE IF Len(validTransactions(body.transactions)) = 0
    THEN CheckResp(400, "No valid transactions provided", FALSE, FALSE, {}, <<>>)
    ELSE IF readError
    THEN CheckResp(500, "error.message", TRUE, FALSE, {}, <<>>)
    ELSE CheckResp(200, "", FALSE, TRUE,
             matchedExtractedIdsOf(validTransactions(body.transactions), rows),
             (IF resp.op = "check-duplicates" THEN resp.matchDetails ELSE <<>>)
                 \o matchDetailsOf(validTransactions(body.transactions), rows))

\* mutant: the select's error is not looked at, the rows default to []
checkDuplicatesPOST_IgnoreError(body, rows, readError) ==
    IF ~body.isArray
    THEN CheckResp(400, "Transactions array is required", FALSE, FALSE, {}, <<>>)
    ELSE LET valid == validTransactions(body.transactions) IN
         IF Len(valid) = 0
         THEN CheckResp(400, "No valid transactions provided", FALSE, FALSE, {}, <<>>)
         ELSE CheckResp(200, "", readError, TRUE,
                        matchedExtractedIdsOf(valid, IF readError THEN <<>> ELSE rows),
                        matchDetailsOf(valid, IF readError THEN <<>> ELSE rows))

\* route.ts:61-165: POST; body is the parsed request, rows what the select
\* returns, readError whether the select returned an error
checkDuplicatesPOST(body, rows, readError) ==
    IF ~body.isArray
    THEN CheckResp(400, "Transactions array is required", FALSE, FALSE, {}, <<>>)
    ELSE LET valid == validTransactions(body.transactions) IN
         IF Len(valid) = 0
         THEN CheckResp(400, "No valid transactions provided", FALSE, FALSE, {}, <<>>)
         ELSE IF readError
         THEN CheckResp(500, "error.message", TRUE, FALSE, {}, <<>>)
         ELSE CheckResp(200, "", FALSE, TRUE,
                        matchedExtractedIdsOf(valid, rows), matchDetailsOf(valid, rows))

-----------------------------------------------------------------------------
(* The transactions table *)

Row(st, sr, ar, am, cu, ty) ==
    [type |-> ty, amount |-> am, currency |-> cu, source_type |-> st,
     source_reference |-> sr, archive_reference |-> ar]

\* the CHECK and NOT NULL constraints of one row; amount is a number in
\* every payload of the model
rowAccepted(r) ==
    /\ r.type \in {"income", "expense"}
    /\ r.currency # Null
    /\ r.source_type \in {"stripe", "invoice", "bank", "manual"}

\* idx_unique_stripe_payment
uniqueStripePayment(rows) ==
    \A i, j \in 1..Len(rows) :
        (/\ i # j
         /\ rows[i].source_type = "stripe" /\ rows[j].source_type = "stripe"
         /\ rows[i].source_reference # Null)
        => rows[i].source_reference # rows[j].source_reference

\* idx_unique_bank_archive_ref
uniqueBankArchiveRef(rows) ==
    \A i, j \in 1..Len(rows) :
        (/\ i # j
         /\ rows[i].source_type = "bank" /\ rows[j].source_type = "bank"
         /\ rows[i].archive_reference # Null)
        => rows[i].archive_reference # rows[j].archive_reference

\* what the table accepts: every constraint except the two unique indexes
tableAccepts_NoUniqueIndexes(rows) ==
    \A i \in 1..Len(rows) : rowAccepted(rows[i])

\* what the table accepts
tableAccepts(rows) ==
    /\ \A i \in 1..Len(rows) : rowAccepted(rows[i])
    /\ uniqueStripePayment(rows)
    /\ uniqueBankArchiveRef(rows)

\* supabase.from("transactions").insert(rows): one statement, all or nothing;
\* unavailable stands for a failure of the database call itself
insert(table, rows, unavailable) ==
    IF ~unavailable /\ tableAccepts(table \o rows)
    THEN [error |-> FALSE, table |-> table \o rows]
    ELSE [error |-> TRUE, table |-> table]

\* .select(column).eq("source_type", st).in(column, refs); data is null when
\* the call fails
selectSourceReferences(table, st, refs, failed) ==
    IF failed THEN {}
    ELSE {table[i].source_reference : i \in
             {j \in 1..Len(table) : /\ table[j].source_type = st
                                     /\ table[j].source_reference \in refs}}

selectArchiveReferences(table, st, refs, failed) ==
    IF failed THEN {}
    ELSE {table[i].archive_reference : i \in
             {j \in 1..Len(table) : /\ table[j].source_type = st
                                     /\ table[j].archive_reference \in refs}}

-----------------------------------------------------------------------------
(* SpecMatch: check-duplicates applied to every ledger and request drawn    *)
(* from the sets below                                                      *)

NoResp == [op |-> "none"]
NoReq == [op |-> "none"]
NoPage == [phase |-> "none"]

Candidate(sp, ar, br, am, cu) ==
    [stripe_payment_id |-> sp, archive_reference |-> ar, bank_reference |-> br,
     amount |-> am, currency |-> cu]

MatchRows ==
    { Row("stripe", idAU, Null, 100, usd, "income"),
      Row("stripe", idC,  Null, 100, usd, "income"),
      Row("stripe", idL,  Null, 100, usd, "income"),
      Row("stripe", idAW, Null, 200, usd, "income"),
      Row("bank",   idA,  idA,  100, usd, "expense"),
      Row("bank",   idL,  idL,  200, usd, "income"),
      Row("bank",   idC,  Null, 100, nok, "income"),
      Row("manual", Null, Null, 100, usd, "income") }

MatchCandidates ==
    { Candidate(idA,  Null, Null, 100, usd),
      Candidate(idAW, Null, Null, 100, USD),
      Candidate(idL,  Null, Null, 100, usd),
      Candidate(idC,  Null, Null, 200, usd),
      Candidate(Null, idAU, Null, 100, usd),
      Candidate(idA,  idA,  Null, 200, usd),
      Candidate(Null, idC,  Null, 100, usd),
      Candidate(Null, Null, idC,  100, usd),
      Candidate(idC,  Null, idC,  100, nok),
      Candidate(Null, Null, Null, 100, usd) }

MatchLedgers ==
    {l \in SeqsOf(MatchRows, 0, MaxLedger) :
        uniqueStripePayment(l) /\ uniqueBankArchiveRef(l)}

CheckRequests ==
    {[op |-> "check-duplicates", isArray |-> TRUE, transactions |-> b] :
        b \in SeqsOf(MatchCandidates, 0, MaxBatch)}
    \cup {[op |-> "check-duplicates", isArray |-> FALSE, transactions |-> <<>>]}

InitMatch ==
    /\ ledger \in MatchLedgers
    /\ req \in CheckRequests
    /\ resp = NoResp
    /\ page = NoPage

\* the handler runs once on the request; the select reads the table or fails
CheckDuplicates ==
    /\ req.op = "check-duplicates"
    /\ resp = NoResp
    /\ \E readError \in BOOLEAN :
          resp' = checkDuplicatesPOST(req, ledger, readError)
    /\ UNCHANGED <<ledger, req, page>>

NextMatch == CheckDuplicates

SpecMatch == InitMatch /\ [][NextMatch]_vars

-----------------------------------------------------------------------------
(* Properties of check-duplicates (SpecMatch) *)

CheckDone == resp.op = "check-duplicates" /\ resp.status = 200

ValidOfReq == validTransactions(req.transactions)

\* the position in matchDetails of the entry pushed for the i-th valid candidate
DetailPos(i) ==
    Cardinality({j \in 1..i : firstMatch(ValidOfReq[j], ledger) # 0})

C5_ReadFailureIsExplicit ==
    (resp.op = "check-duplicates" /\ resp.readError)
        => /\ resp.status = 500
           /\ resp.error # ""
           /\ ~resp.hasMatches

C5_Witness ==
    /\ resp.op = "check-duplicates"
    /\ resp.readError
    /\ resp.status = 500
    /\ Len(ledger) > 0
    /\ \E k \in 1..Len(ledger) : transactionMatches(ValidOfReq[1], ledger[k])

SampleIds == {idA, idAU, idAW, idC, idL}

\* the identifiers equal to id after lower-casing and trimming
EquivalentIds(id) ==
    IF Truthy(id)
    THEN {x \in SampleIds : normalizePaymentId(x) = normalizePaymentId(id)}
    ELSE {id}

\* C7 as stated: replacing an identifier of the candidate, or of an existing
\* row, by one that is equal after lower-casing and trimming never changes
\* whether the candidate is matched.
C7_MatchInvariantUnderNormalization ==
    (CheckDone /\ Len(ValidOfReq) = 1) =>
        LET e == ValidOfReq[1]
            matched == resp.matchDetails # <<>>
        IN  /\ \A x \in EquivalentIds(e.stripe_payment_id) :
                   (firstMatch([e EXCEPT !.stripe_payment_id = x], ledger) # 0) = matched
            /\ \A x \in EquivalentIds(e.archive_reference) :
                   (firstMatch([e EXCEPT !.archive_reference = x], ledger) # 0) = matched
            /\ \A k \in 1..Len(ledger) :
                   \A x \in EquivalentIds(ledger[k].source_reference) :
                       (firstMatch(e, [ledger EXCEPT ![k].source_reference = x]) # 0)
                           = matched

\* Tier 3 as C8 states it: equal amount, currency equal ignoring case, both
\* identifiers non-empty and of lengths at most 5 apart
C8_TierThree(e, d) ==
    LET eid == IF Truthy(e.stripe_payment_id) THEN e.stripe_payment_id
               ELSE e.archive_reference
        did == IF Truthy(d.source_reference) THEN d.source_reference
               ELSE d.archive_reference
    IN  /\ e.amount = d.amount
        /\ toLowerCase(e.currency) = toLowerCase(d.currency)
        /\ Truthy(eid) /\ Truthy(did)
        /\ Len(eid) - Len(did) \in -5..5

C8_IdentifiersDiffer(e, d) ==
    ~archiveRefsMatch(e, d) /\ ~stripeIdsMatch(e, d)

\* the extractedIds C8 expects in matchDetails against the single row d
RECURSIVE C8_Expected(_, _)
C8_Expected(valid, d) ==
    IF valid = <<>> THEN <<>>
    ELSE (IF \/ ~C8_IdentifiersDiffer(Head(valid), d)
             \/ C8_TierThree(Head(valid), d)
          THEN <<extractedIdOf(Head(valid))>> ELSE <<>>)
         \o C8_Expected(Tail(valid), d)

\* C8: a candidate whose identifiers equal none of a row's (Tiers 1 and 2 do
\* not apply) matches the row exactly when amount is equal, currency is equal
\* ignoring case, both identifiers are non-empty and their lengths are at most
\* 5 apart; with lengths 6 or more apart the pair never matches.
C8_TierThreeBoundary ==
    (CheckDone /\ Len(ledger) = 1) =>
        [n \in 1..Len(resp.matchDetails) |-> resp.matchDetails[n].extractedId]
            = C8_Expected(ValidOfReq, ledger[1])

C8_Witness ==
    /\ CheckDone
    /\ Len(ledger) = 1
    /\ Len(ValidOfReq) = 2
    /\ C8_IdentifiersDiffer(ValidOfReq[1], ledger[1])
    /\ C8_IdentifiersDiffer(ValidOfReq[2], ledger[1])
    /\ ValidOfReq[1].amount = ledger[1].amount
    /\ ValidOfReq[2].amount = ledger[1].amount
    /\ Len(ValidOfReq[1].stripe_payment_id) - Len(ledger[1].source_reference) = -5
    /\ Len(ValidOfReq[2].stripe_payment_id) - Len(ledger[1].source_reference) = -6
    /\ Len(resp.matchDetails) = 1
    /\ resp.matchDetails[1].extractedId = ValidOfReq[1].stripe_payment_id
    /\ resp.matchDetails[1].matchType = "amount_currency"

IsStripeCandidate(e) ==
    Truthy(e.stripe_payment_id) /\ ~Truthy(e.archive_reference)

\* C9 as stated: a Stripe candidate whose payment id equals some row's
\* source_reference up to letter case is reported with matchType payment_id and
\* its normalized payment id is in matchedExtractedIds.
C9_PaymentIdReported ==
    CheckDone =>
        \A i \in 1..Len(ValidOfReq) :
            LET e == ValidOfReq[i] IN
            (/\ IsStripeCandidate(e)
             /\ \E k \in 1..Len(ledger) :
                    /\ Truthy(ledger[k].source_reference)
                    /\ toLowerCase(e.stripe_payment_id)
                         = toLowerCase(ledger[k].source_reference))
            => /\ normalizePaymentId(e.stripe_payment_id) \in resp.matchedExtractedIds
               /\ DetailPos(i) \in 1..Len(resp.matchDetails)
               /\ resp.matchDetails[DetailPos(i)].matchType = "payment_id"

\* C9 amended: such a candidate is reported as matched and its normalized
\* payment id is in matchedExtractedIds; the matchType is payment_id exactly
\* when the first matching row in scan order is one whose source_reference
\* equals the payment id after normalization, and amount_currency otherwise.
C9_PaymentIdOnFirstMatch ==
    CheckDone =>
        \A i \in 1..Len(ValidOfReq) :
            LET e == ValidOfReq[i]
                k == firstMatch(e, ledger)
            IN  (/\ IsStripeCandidate(e)
                 /\ \E n \in 1..Len(ledger) : stripeIdsMatch(e, ledger[n]))
                => /\ k # 0
                   /\ normalizePaymentId(e.stripe_payment_id) \in resp.matchedExtractedIds
                   /\ DetailPos(i) \in 1..Len(resp.matchDetails)
                   /\ resp.matchDetails[DetailPos(i)].matchType =
                        (IF stripeIdsMatch(e, ledger[k]) THEN "payment_id"
                         ELSE "amount_currency")

C9_Witness ==
    /\ CheckDone
    /\ Len(ledger) = 1
    /\ Len(ValidOfReq) = 1
    /\ IsStripeCandidate(ValidOfReq[1])
    /\ ValidOfReq[1].stripe_payment_id # ledger[1].source_reference
    /\ toLowerCase(ValidOfReq[1].stripe_payment_id) = toLowerCase(ledger[1].source_reference)
    /\ resp.matchDetails[1].matchType = "payment_id"
    /\ resp.matchedExtractedIds = {toLowerCase(ValidOfReq[1].stripe_payment_id)}

\* C10 as stated: a bank candidate with no archive reference but a bank
\* reference, whose amount and currency equal those of a bank row whose archive
\* reference is within 5 characters of the bank reference's length, is flagged
\* as a match with matchType amount_currency.
C10_BankReferenceTierThree ==
    CheckDone =>
        \A i \in 1..Len(ValidOfReq) :
            LET e == ValidOfReq[i] IN
            (/\ ~Truthy(e.archive_reference)
             /\ Truthy(e.bank_reference)
             /\ \E k \in 1..Len(ledger) :
                    /\ ledger[k].source_type = "bank"
                    /\ Truthy(ledger[k].archive_reference)
                    /\ e.amount = ledger[k].amount
                    /\ e.currency = ledger[k].currency
                    /\ Len(e.bank_reference) - Len(ledger[k].archive_reference) \in -5..5)
            => /\ normalizePaymentId(extractedIdOf(e)) \in resp.matchedExtractedIds
               /\ DetailPos(i) \in 1..Len(resp.matchDetails)
               /\ resp.matchDetails[DetailPos(i)].matchType = "amount_currency"

-----------------------------------------------------------------------------
(* Amounts and dates of the CSV importers *)

IsDigit(c) == c \in {"0", "1", "2", "3", "4", "5", "6", "7", "8", "9"}

DigitVal(c) ==
    CASE c = "0" -> 0 [] c = "1" -> 1 [] c = "2" -> 2 [] c = "3" -> 3
      [] c = "4" -> 4 [] c = "5" -> 5 [] c = "6" -> 6 [] c = "7" -> 7
      [] c = "8" -> 8 [] c = "9" -> 9

\* the longest prefix of s made of digits
RECURSIVE takeDigits(_)
takeDigits(s) ==
    IF s # <<>> /\ IsDigit(Head(s)) THEN <<Head(s)>> \o takeDigits(Tail(s))
    ELSE <<>>

\* the value of a digit string
RECURSIVE digitsValue(_)
digitsValue(ds) ==
    IF ds = <<>> THEN 0
    ELSE 10 * digitsValue(SubSeq(ds, 1, Len(ds) - 1)) + DigitVal(ds[Len(ds)])

\* s.replace(/X/g, "") for a character class X
RECURSIVE removeAll(_, _)
removeAll(s, class) ==
    IF s = <<>> THEN <<>>
    ELSE IF Head(s) \in class THEN removeAll(Tail(s), class)
    ELSE <<Head(s)>> \o removeAll(Tail(s), class)

\* s.replace(c, d): the first occurrence only
RECURSIVE replaceFirst(_, _, _)
replaceFirst(s, c, d) ==
    IF s = <<>> THEN <<>>
    ELSE IF Head(s) = c THEN <<d>> \o Tail(s)
    ELSE <<Head(s)>> \o replaceFirst(Tail(s), c, d)

includes(s, c) == \E i \in 1..Len(s) : s[i] = c

NaN == [nan |-> TRUE]

\* parseFloat: optional sign, digits, optional fraction; NaN without a digit.
\* The result keeps the sign, the integer part and the fraction digits.
parseFloat(str) ==
    LET s    == trimStart(str)
        neg  == s # <<>> /\ Head(s) = "-"
        u    == IF s # <<>> /\ Head(s) \in {"-", "+"} THEN Tail(s) ELSE s
        ip   == takeDigits(u)
        rest == SubSeq(u, Len(ip) + 1, Len(u))
        fp   == IF rest # <<>> /\ Head(rest) = "." THEN takeDigits(Tail(rest))
                ELSE <<>>
    IN  IF ip = <<>> /\ fp = <<>> THEN NaN
        ELSE [nan |-> FALSE, neg |-> neg, int |-> digitsValue(ip), frac |-> fp]

\* Math.round(majorUnits * 100) for a parsed number; the third fraction digit
\* decides the rounding (towards +Infinity on a tie)
roundTimes100(n) ==
    LET d(i)  == IF i <= Len(n.frac) THEN DigitVal(n.frac[i]) ELSE 0
        whole == n.int * 100 + d(1) * 10 + d(2)
    IN  IF ~n.neg THEN (IF d(3) >= 5 THEN whole + 1 ELSE whole)
        ELSE (IF d(3) > 5 \/ (d(3) = 5 /\ \E i \in 4..Len(n.frac) : d(i) # 0)
              THEN -(whole + 1) ELSE -whole)

\* import-bank-csv convertAmountToMinorUnits; NaN stands for the thrown Error
bankAmountToMinorUnits(amountStr) ==
    LET c0 == removeAll(trim(amountStr), {" "})
        isNegative == c0 # <<>> /\ Head(c0) = "-"
        c1 == IF isNegative THEN Tail(c0) ELSE c0
        c2 == IF includes(c1, ",")
              THEN replaceFirst(removeAll(c1, {"."}), ",", ".")
              ELSE c1
        majorUnits == parseFloat(c2)
    IN  IF majorUnits.nan THEN NaN
        ELSE [nan |-> FALSE, value |-> roundTimes100(majorUnits)]

\* import-stripe-csv convertAmountToMinorUnits
stripeAmountToMinorUnits(amountStr) ==
    LET dropped == {c \in {amountStr[i] : i \in 1..Len(amountStr)} :
                       ~(IsDigit(c) \/ c \in {",", ".", "-"})}
        cleaned == replaceFirst(removeAll(amountStr, dropped), ",", ".")
        majorUnits == parseFloat(cleaned)
    IN  IF majorUnits.nan THEN NaN
        ELSE [nan |-> FALSE, value |-> roundTimes100(majorUnits)]

-----------------------------------------------------------------------------
(* save-transactions *)

\* a || b for the enumerated fields, "" standing for an absent value
OrElse(a, b) == IF a = "" THEN b ELSE a

\* the values of a field over the rows of a list
Range(seq) == {seq[i] : i \in 1..Len(seq)}

\* archiveRefCounts.get(ref) || 0 over a batch
archiveRefCount(batch, ref) ==
    IF Truthy(ref)
    THEN Cardinality({i \in 1..Len(batch) : batch[i].archive_reference = ref})
    ELSE 0

\* the reference is kept whatever the other rows carry
suppressedArchiveRef_KeepShared(batch, i) ==
    IF Truthy(batch[i].archive_reference) THEN batch[i].archive_reference
    ELSE Null

\* the reference a row is written with: kept only when no other row of the
\* batch carries it
suppressedArchiveRef(batch, i) ==
    IF archiveRefCount(batch, batch[i].archive_reference) = 1
    THEN batch[i].archive_reference
    ELSE Null

\* a response of one of the three persistence endpoints, with the lists the
\* handler went through: errors (the length of the errors list the answer
\* carries, 0 when it carries none), batch (the rows counted for shared
\* references),
\* suppressed (the same rows after the suppression), inserted (the rows handed
\* to insert) and written (whether the insert succeeded)
PersistResp(op, status, imported, skipped, errors, batch, suppressed, inserted, written) ==
    [op |-> op, status |-> status, imported |-> imported, skipped |-> skipped,
     errors |-> errors,
     batch |-> batch, suppressed |-> suppressed, inserted |-> inserted,
     written |-> written]

PersistError(op, status, errors) ==
    PersistResp(op, status, 0, 0, errors, <<>>, <<>>, <<>>, FALSE)

\* route.ts:34-50, the columns the model keeps
saveRow(transactions, i) ==
    LET t == transactions[i]
    IN  Row(OrElse(t.source_type, "stripe"),
            Or(t.source_reference, t.stripe_payment_id),
            suppressedArchiveRef(transactions, i),
            t.amount,
            toLowerCase(t.currency),
            OrElse(t.type, "income"))

\* route.ts:112-125
saveIsNew(t, existingRefs) ==
    IF t.source_type = "bank"
    THEN /\ ~(Truthy(t.archive_reference) /\ t.archive_reference \in existingRefs)
         /\ ~(Truthy(t.source_reference) /\ t.source_reference \in existingRefs)
    ELSE t.source_reference \notin existingRefs

\* the list of the elements of seq whose index is in keep, in order
RECURSIVE pick(_, _, _)
pick(seq, keep, i) ==
    IF i > Len(seq) THEN <<>>
    ELSE (IF i \in keep THEN <<seq[i]>> ELSE <<>>) \o pick(seq, keep, i + 1)

\* insert and the two answers that follow it; total is the number of rows
\* the handler had before it left out the existing ones
persistWrite(op, total, errors, batch, suppressed, inserted, done) ==
    IF done.error
    THEN [resp |-> PersistResp(op, 500, 0, 0, errors, batch, suppressed,
                               inserted, FALSE),
          table |-> done.table]
    ELSE [resp |-> PersistResp(op, 200, Len(inserted), total - Len(inserted),
                               errors, batch, suppressed, inserted, TRUE),
          table |-> done.table]

\* route.ts:28-51
saveRows(transactions) ==
    [i \in 1..Len(transactions) |-> saveRow(transactions, i)]

\* the indexes of the rows of a source type
ofType(rows, st) == {i \in 1..Len(rows) : rows[i].source_type = st}

\* the truthy values of a set of references: .filter(Boolean)
truthyRefs(refs) == {r \in refs : Truthy(r)}

\* route.ts:59-71
saveExistingStripe(rows, stripe, table, failed) ==
    IF stripe = {} THEN {}
    ELSE selectSourceReferences(table, "stripe",
             truthyRefs({rows[i].source_reference : i \in stripe}), failed)

\* route.ts:79-94: only the references one bank row carries are asked for
saveExistingBankByArchive(rows, bank, table, failed) ==
    selectArchiveReferences(table, "bank",
        truthyRefs({rows[j].archive_reference : j \in
            {i \in bank : \A k \in bank :
                rows[k].archive_reference = rows[i].archive_reference => k = i}}),
        failed)

\* route.ts:97-108
saveExistingBankBySource(rows, bank, table, failed) ==
    selectSourceReferences(table, "bank",
        truthyRefs({rows[i].source_reference : i \in bank}), failed)

\* route.ts:56-109
saveExistingRefs(rows, table, stripeFails, archiveFails, sourceFails) ==
    truthyRefs(saveExistingStripe(rows, ofType(rows, "stripe"), table, stripeFails)
        \cup saveExistingBankByArchive(rows, ofType(rows, "bank"), table,
                                       archiveFails)
        \cup saveExistingBankBySource(rows, ofType(rows, "bank"), table,
                                      sourceFails))

\* route.ts:112-125
saveNewTransactions(rows, existingRefs) ==
    pick(rows, {i \in 1..Len(rows) : saveIsNew(rows[i], existingRefs)}, 1)

\* route.ts:127-162
saveWrite(transactions, transactionsToInsert, newTransactions, table, insertFails) ==
    IF newTransactions = <<>>
    THEN [resp |-> PersistResp("save-transactions", 200, 0,
                               Len(transactionsToInsert), 0, transactions,
                               transactionsToInsert, <<>>, FALSE),
          table |-> table]
    ELSE persistWrite("save-transactions", Len(transactionsToInsert), 0,
                      transactions, transactionsToInsert, newTransactions,
                      insert(table, newTransactions, insertFails))

\* route.ts:53-162
saveCheckAndWrite(transactions, rows, table, stripeFails, archiveFails, sourceFails, insertFails) ==
    saveWrite(transactions, rows,
              saveNewTransactions(rows,
                  saveExistingRefs(rows, table, stripeFails, archiveFails,
                                   sourceFails)),
              table, insertFails)

\* POST /api/save-transactions on a table; the three reads and the insert may
\* each fail
saveTransactionsPOST(body, table, stripeFails, archiveFails, sourceFails, insertFails) ==
    IF ~body.isArray
    THEN [resp |-> PersistError("save-transactions", 400, 0), table |-> table]
    ELSE IF \E i \in 1..Len(body.transactions) :
                body.transactions[i].currency = Null
    THEN \* undefined.toLowerCase() throws; the outer catch answers
         [resp |-> PersistError("save-transactions", 500, 0), table |-> table]
    ELSE saveCheckAndWrite(body.transactions, saveRows(body.transactions), table,
                           stripeFails, archiveFails, sourceFails, insertFails)

-----------------------------------------------------------------------------
(* import-bank-csv *)

\* /^\d{4}-\d{2}-\d{2}$/
isIsoDate(s) ==
    /\ Len(s) = 10
    /\ \A i \in {1, 2, 3, 4, 6, 7, 9, 10} : IsDigit(s[i])
    /\ s[5] = "-" /\ s[8] = "-"

\* s.split(c)
RECURSIVE split(_, _)
split(s, c) ==
    IF ~includes(s, c) THEN <<s>>
    ELSE LET k == CHOOSE i \in 1..Len(s) :
                      s[i] = c /\ \A j \in 1..(i - 1) : s[j] # c
         IN  <<SubSeq(s, 1, k - 1)>> \o split(SubSeq(s, k + 1, Len(s)), c)

\* s.padStart(2, "0")
padStart2(s) ==
    IF Len(s) = 0 THEN <<"0", "0">> ELSE IF Len(s) = 1 THEN <<"0">> \o s ELSE s

\* parseNorwegianDate; Null stands for the thrown Error
parseNorwegianDate(dateStr) ==
    IF isIsoDate(dateStr) THEN dateStr
    ELSE LET parts == split(dateStr, ".")
         IN  IF Len(parts) = 3
             THEN parts[3] \o <<"-">> \o padStart2(parts[2]) \o <<"-">>
                      \o padStart2(parts[1])
             ELSE Null

\* String(n) of an integer
RECURSIVE natToString(_)
natToString(n) ==
    IF n < 10 THEN <<CHOOSE c \in {"0", "1", "2", "3", "4", "5", "6", "7", "8", "9"} :
                         DigitVal(c) = n>>
    ELSE natToString(n \div 10) \o natToString(n % 10)

numberToString(n) == IF n < 0 THEN <<"-">> \o natToString(-n) ELSE natToString(n)

\* `bank_${transactionDate}_${amount}_${random}`
generatedReference(transactionDate, amount, random) ==
    <<"b", "a", "n", "k", "_">> \o transactionDate \o <<"_">>
        \o numberToString(amount) \o <<"_">> \o random

\* part_010:83-168, one record of the file: the row it becomes, or ok = FALSE
\* when the record is pushed to errors; random is the suffix Math.random()
\* gives this record
bankRow(csvTxn, random) ==
    LET isExpense == Truthy(csvTxn.Ut)
        amountStr == IF isExpense THEN csvTxn.Ut ELSE csvTxn.Inn
        amount    == bankAmountToMinorUnits(amountStr)
        transactionDate == parseNorwegianDate(csvTxn.date)
    IN  IF ~Truthy(amountStr) \/ ~Truthy(csvTxn.date) THEN [ok |-> FALSE]
        ELSE IF amount.nan THEN [ok |-> FALSE]
        ELSE IF transactionDate = Null THEN [ok |-> FALSE]
        ELSE [ok  |-> TRUE,
              row |-> Row("bank",
                          Or(csvTxn.Arkivref,
                             Or(csvTxn.Referanse,
                                generatedReference(transactionDate, amount.value,
                                                   random))),
                          Or(csvTxn.Arkivref, Null),
                          amount.value,
                          nok,
                          IF isExpense THEN "expense" ELSE "income")]

\* part_010:222-230
bankIsNew(t, existingRefs) ==
    /\ ~(Truthy(t.archive_reference) /\ t.archive_reference \in existingRefs)
    /\ ~(Truthy(t.source_reference) /\ t.source_reference \in existingRefs)

\* part_010:250-258
finalRow(newTransactions, i) ==
    [newTransactions[i] EXCEPT
        !.archive_reference = suppressedArchiveRef(newTransactions, i)]

\* part_010:83-168: the rows of the records that pass, in file order
RECURSIVE bankRows(_, _, _)
bankRows(transactions, random, i) ==
    IF i > Len(transactions) THEN <<>>
    ELSE (IF bankRow(transactions[i], random[i]).ok
          THEN <<bankRow(transactions[i], random[i]).row>>
          ELSE <<>>) \o bankRows(transactions, random, i + 1)

\* part_010:180-220
bankExistingRefs(rows, table, archiveFails, sourceFails) ==
    truthyRefs(
        selectArchiveReferences(table, "bank",
            truthyRefs({rows[i].archive_reference : i \in 1..Len(rows)}),
            archiveFails)
        \cup selectSourceReferences(table, "bank",
            truthyRefs({rows[i].source_reference : i \in 1..Len(rows)}),
            sourceFails))

\* part_010:222-230
bankNewTransactions(rows, existingRefs) ==
    pick(rows, {i \in 1..Len(rows) : bankIsNew(rows[i], existingRefs)}, 1)

\* part_010:250-258
finalRows(newTransactions) ==
    [i \in 1..Len(newTransactions) |-> finalRow(newTransactions, i)]

\* part_010:232-278
bankWrite(total, errors, newTransactions, finalTransactions, table, insertFails) ==
    IF newTransactions = <<>>
    THEN \* "All transactions already exist": the answer has no errors list
         [resp |-> PersistResp("import-bank-csv", 200, 0, total, 0,
                               <<>>, <<>>, <<>>, FALSE),
          table |-> table]
    ELSE persistWrite("import-bank-csv", total, errors, newTransactions,
                      finalTransactions, finalTransactions,
                      insert(table, finalTransactions, insertFails))

\* part_010:222-278
bankSuppressAndWrite(total, errors, newTransactions, table, insertFails) ==
    bankWrite(total, errors, newTransactions, finalRows(newTransactions), table,
              insertFails)

\* part_010:173-278
bankCheckAndWrite(rows, errors, table, archiveFails, sourceFails, insertFails) ==
    IF rows = <<>>
    THEN [resp |-> PersistError("import-bank-csv", 400, errors), table |-> table]
    ELSE bankSuppressAndWrite(Len(rows), errors,
             bankNewTransactions(rows,
                 bankExistingRefs(rows, table, archiveFails, sourceFails)),
             table, insertFails)

\* the records loop, then the rest of the handler on its rows
bankParseAndWrite(transactions, rows, table, archiveFails, sourceFails, insertFails) ==
    bankCheckAndWrite(rows, Len(transactions) - Len(rows), table, archiveFails,
                      sourceFails, insertFails)

\* POST /api/import-bank-csv on a table; random gives each record its suffix
importBankCsvPOST(body, table, random, archiveFails, sourceFails, insertFails) ==
    IF ~body.isArray
    THEN [resp |-> PersistError("import-bank-csv", 400, 0), table |-> table]
    ELSE bankParseAndWrite(body.transactions,
                           bankRows(body.transactions, random, 1), table,
                           archiveFails, sourceFails, insertFails)

-----------------------------------------------------------------------------
(* import-stripe-csv *)

\* parseDate: the date part of the string, Null standing for the thrown Error.
\* Of the strings new Date() accepts the model has only those that start with
\* YYYY-MM-DD; an absent date throws in the fallback as well.
parseDate(dateStr) ==
    IF dateStr = Null THEN Null
    ELSE LET first == split(dateStr, " ")[1]
         IN  IF isIsoDate(first) THEN first ELSE Null

\* part_009:83-124, one record of the file
stripeRow(csvTxn) ==
    IF \/ ~Truthy(csvTxn.PaymentIntentID)
       \/ ~Truthy(csvTxn.Amount)
       \/ ~Truthy(csvTxn.Currency)
    THEN [ok |-> FALSE]
    ELSE LET amount == stripeAmountToMinorUnits(csvTxn.Amount)
         IN  IF amount.nan THEN [ok |-> FALSE]
             ELSE IF parseDate(csvTxn.date) = Null THEN [ok |-> FALSE]
             ELSE [ok  |-> TRUE,
                   row |-> Row("stripe", trim(csvTxn.PaymentIntentID), Null,
                               amount.value,
                               trim(toLowerCase(csvTxn.Currency)), "income")]

\* part_009:82-124: the rows of the records that pass, in file order
RECURSIVE stripeRows(_, _)
stripeRows(transactions, i) ==
    IF i > Len(transactions) THEN <<>>
    ELSE (IF stripeRow(transactions[i]).ok
          THEN <<stripeRow(transactions[i]).row>>
          ELSE <<>>) \o stripeRows(transactions, i + 1)

\* part_009:134-154
stripeNewTransactions(rows, table) ==
    pick(rows,
         {i \in 1..Len(rows) :
             rows[i].source_reference \notin
                 selectSourceReferences(table, "stripe",
                     {rows[j].source_reference : j \in 1..Len(rows)}, FALSE)},
         1)

\* part_009:156-183
stripeWrite(total, errors, newTransactions, table, insertFails) ==
    IF newTransactions = <<>>
    THEN \* "All transactions already exist": the answer has no errors list
         [resp |-> PersistResp("import-stripe-csv", 200, 0, total, 0,
                               <<>>, <<>>, <<>>, FALSE),
          table |-> table]
    ELSE persistWrite("import-stripe-csv", total, errors, newTransactions,
                      newTransactions, newTransactions,
                      insert(table, newTransactions, insertFails))

\* part_009:126-183
stripeCheckAndWrite(rows, errors, table, checkFails, insertFails) ==
    IF rows = <<>>
    THEN [resp |-> PersistError("import-stripe-csv", 400, errors),
          table |-> table]
    ELSE IF checkFails
    THEN \* "Failed to check for duplicates": the answer has no errors list
         [resp |-> PersistError("import-stripe-csv", 500, 0),
          table |-> table]
    ELSE stripeWrite(Len(rows), errors, stripeNewTransactions(rows, table), table,
                     insertFails)

\* the records loop, then the rest of the handler on its rows
stripeParseAndWrite(transactions, rows, table, checkFails, insertFails) ==
    stripeCheckAndWrite(rows, Len(transactions) - Len(rows), table, checkFails,
                        insertFails)

\* POST /api/import-stripe-csv on a table
importStripeCsvPOST(body, table, projectsFails, checkFails, insertFails) ==
    IF ~body.isArray
    THEN [resp |-> PersistError("import-stripe-csv", 400, 0), table |-> table]
    ELSE IF projectsFails
    THEN [resp |-> PersistError("import-stripe-csv", 500, 0), table |-> table]
    ELSE stripeParseAndWrite(body.transactions, stripeRows(body.transactions, 1),
                             table, checkFails, insertFails)

-----------------------------------------------------------------------------
(* Spec: the three persistence endpoints called in any order on a table     *)
(* that starts empty                                                        *)

MaxRows == 3
MaxPayload == 3

isoDate == <<"2", "0", "2", "5", "-", "0", "1", "-", "0", "2">>
dmyDate == <<"2", ".", "1", ".", "2", "0", "2", "5">>
junkDate == <<"x">>

\* a transaction of a save-transactions body
SaveInput(ty, am, cu, st, sr, sp, ar) ==
    [type |-> ty, amount |-> am, currency |-> cu, source_type |-> st,
     source_reference |-> sr, stripe_payment_id |-> sp, archive_reference |-> ar]

SaveInputs ==
    { SaveInput("", 100, USD, "", Null, idA, Null),
      SaveInput("", 100, usd, "", Null, idA, idA),
      SaveInput("", 100, Null, "", Null, idC, Null),
      SaveInput("", 100, usd, "", Null, Null, Null),
      SaveInput("expense", 200, nok, "bank", idA, Null, idA),
      SaveInput("income", 200, nok, "bank", idC, Null, idA),
      SaveInput("income", 200, nok, "bank", idC, Null, idL),
      SaveInput("income", 200, nok, "bank", idL, Null, <<>>),
      SaveInput("refund", 200, nok, "manual", idC, Null, idL) }

\* a record of a bank statement file
BankCsv(ut, inn, date, arkivref, referanse) ==
    [Ut |-> ut, Inn |-> inn, date |-> date, Arkivref |-> arkivref,
     Referanse |-> referanse]

BankCsvInputs ==
    { BankCsv(<<"-", "1", ",", "0", "0">>, Null, dmyDate, idA, Null),
      BankCsv(Null, <<"2">>, isoDate, idA, idC),
      BankCsv(<<>>, <<"2">>, isoDate, Null, idC),
      BankCsv(Null, <<"2", ",", "5", "0">>, isoDate, idL, idC),
      BankCsv(Null, <<"2">>, isoDate, Null, Null),
      BankCsv(Null, <<"k", "r">>, isoDate, idC, Null),
      BankCsv(Null, <<"2">>, junkDate, idC, Null),
      BankCsv(Null, Null, isoDate, idC, Null) }

RandomSuffixes == {<<"x">>, <<"y">>}

\* a record of a Stripe export
StripeCsv(id, amount, currency, date) ==
    [PaymentIntentID |-> id, Amount |-> amount, Currency |-> currency,
     date |-> date]

StripeCsvInputs ==
    { StripeCsv(idA, <<"1", ",", "0", "0">>, USD, isoDate),
      StripeCsv(idAW, <<"1", ",", "0", "0">>, usd, isoDate),
      StripeCsv(idAU, <<"1">>, usd, isoDate \o <<" ", "1", "8", ":", "4", "8">>),
      StripeCsv(idC, <<"2", ".", "5">>, nok, isoDate),
      StripeCsv(Null, <<"2">>, nok, isoDate),
      StripeCsv(idL, <<"k", "r">>, nok, isoDate),
      StripeCsv(idL, <<"2">>, nok, junkDate),
      StripeCsv(idL, <<"2">>, nok, Null) }

\* the bodies of an endpoint: a list of at most MaxPayload inputs that the
\* table has room for, or no list
Bodies(op, inputs, room) ==
    {[op |-> op, isArray |-> TRUE, transactions |-> b] :
        b \in SeqsOf(inputs, 0, IF room < MaxPayload THEN room ELSE MaxPayload)}
    \cup {[op |-> op, isArray |-> FALSE, transactions |-> <<>>]}

Init ==
    /\ ledger = <<>>
    /\ req = NoReq
    /\ resp = NoResp
    /\ page = NoPage

\* the calls of a handler that fail during one request: none, one of them, or
\* all of them
Failures(calls) == {{}} \cup {{c} : c \in calls} \cup {calls}

SaveTransactions ==
    /\ resp = NoResp
    /\ \E body \in Bodies("save-transactions", SaveInputs, MaxRows - Len(ledger)),
          failed \in Failures({"stripe", "archive", "source", "insert"}) :
           LET out == saveTransactionsPOST(body, ledger, "stripe" \in failed,
                                           "archive" \in failed,
                                           "source" \in failed,
                                           "insert" \in failed)
           IN  /\ req' = body
               /\ resp' = out.resp
               /\ ledger' = out.table
    /\ UNCHANGED page

ImportStripeCsv ==
    /\ resp = NoResp
    /\ \E body \in Bodies("import-stripe-csv", StripeCsvInputs,
                           MaxRows - Len(ledger)),
          failed \in Failures({"projects", "check", "insert"}) :
           LET out == importStripeCsvPOST(body, ledger, "projects" \in failed,
                                          "check" \in failed,
                                          "insert" \in failed)
           IN  /\ req' = body
               /\ resp' = out.resp
               /\ ledger' = out.table
    /\ UNCHANGED page

ImportBankCsv ==
    /\ resp = NoResp
    /\ \E body \in Bodies("import-bank-csv", BankCsvInputs,
                           MaxRows - Len(ledger)),
          failed \in Failures({"archive", "source", "insert"}) :
           \E random \in [1..Len(body.transactions) -> RandomSuffixes] :
               LET out == importBankCsvPOST(body, ledger, random,
                                            "archive" \in failed,
                                            "source" \in failed,
                                            "insert" \in failed)
               IN  /\ req' = body
                   /\ resp' = out.resp
                   /\ ledger' = out.table
    /\ UNCHANGED page

\* the caller receives the response
Deliver ==
    /\ resp # NoResp
    /\ req' = NoReq
    /\ resp' = NoResp
    /\ UNCHANGED <<ledger, page>>

Next == SaveTransactions \/ ImportStripeCsv \/ ImportBankCsv \/ Deliver

Spec == Init /\ [][Next]_vars

-----------------------------------------------------------------------------
(* Properties of the persistence endpoints (Spec) *)

\* C2: after any sequence of save-transactions, import-stripe-csv and
\* import-bank-csv requests from an empty ledger, no two rows of the ledger
\* have source_type stripe and the same non-null source_reference, and no two
\* have source_type bank and the same non-null archive_reference.
C2_LedgerUniqueness ==
    \A i, j \in 1..Len(ledger) :
        i < j =>
            /\ ~(/\ ledger[i].source_type = "stripe"
                 /\ ledger[j].source_type = "stripe"
                 /\ ledger[i].source_reference # Null
                 /\ ledger[i].source_reference = ledger[j].source_reference)
            /\ ~(/\ ledger[i].source_type = "bank"
                 /\ ledger[j].source_type = "bank"
                 /\ ledger[i].archive_reference # Null
                 /\ ledger[i].archive_reference = ledger[j].archive_reference)


\* a request whose rows would have repeated a stripe source_reference or a
\* bank archive_reference of a non-empty ledger was refused by the table
C2_Witness ==
    /\ resp.op \in {"save-transactions", "import-stripe-csv", "import-bank-csv"}
    /\ resp.status = 500
    /\ resp.inserted # <<>>
    /\ Len(ledger) >= 2
    /\ \E i \in 1..Len(ledger), j \in 1..Len(resp.inserted) :
          \/ /\ ledger[i].source_type = "stripe"
             /\ resp.inserted[j].source_type = "stripe"
             /\ ledger[i].source_reference # Null
             /\ ledger[i].source_reference = resp.inserted[j].source_reference
          \/ /\ ledger[i].source_type = "bank"
             /\ resp.inserted[j].source_type = "bank"
             /\ ledger[i].archive_reference # Null
             /\ ledger[i].archive_reference = resp.inserted[j].archive_reference


\* the number of rows of a batch that carry the archive reference of row i
C3_Sharing(batch, i) ==
    Cardinality({j \in 1..Len(batch) :
                    batch[j].archive_reference = batch[i].archive_reference})

\* the table as it was before the response in flight wrote its rows
LedgerBefore ==
    IF resp.written
    THEN SubSeq(ledger, 1, Len(ledger) - Len(resp.inserted))
    ELSE ledger

\* the rows the response in flight appended to the table
LedgerWritten ==
    IF resp.written
    THEN SubSeq(ledger, Len(ledger) - Len(resp.inserted) + 1, Len(ledger))
    ELSE <<>>

\* C3: for every batch given to save-transactions and every batch of new rows
\* in import-bank-csv, a row whose archive_reference is carried by more than
\* one row of the batch goes on with archive_reference null, a row whose
\* archive_reference is carried by it alone keeps it, and the collision drops
\* no row: the batch keeps its length and order, the rows handed to insert
\* never share a bank archive reference, a row with a shared reference is left
\* out of the insert only when its source_reference is already in the table,
\* and a successful insert writes exactly the rows handed to it.
C3_SharedArchiveRefSuppressed ==
    resp.op \in {"save-transactions", "import-bank-csv"} =>
        /\ Len(resp.suppressed) = Len(resp.batch)
        /\ \A i \in 1..Len(resp.batch) :
              LET ref == resp.batch[i].archive_reference
              IN  /\ Truthy(ref) /\ C3_Sharing(resp.batch, i) > 1
                       => resp.suppressed[i].archive_reference = Null
                  /\ Truthy(ref) /\ C3_Sharing(resp.batch, i) = 1
                       => resp.suppressed[i].archive_reference = ref
                  /\ resp.suppressed[i].amount = resp.batch[i].amount
                  /\ Truthy(ref) /\ C3_Sharing(resp.batch, i) > 1
                     /\ resp.suppressed[i] \notin Range(resp.inserted)
                       => \E k \in 1..Len(LedgerBefore) :
                             resp.suppressed[i].source_reference \in
                                 {LedgerBefore[k].source_reference,
                                  LedgerBefore[k].archive_reference}
        /\ resp.op = "import-bank-csv" => resp.inserted = resp.suppressed
        /\ \A i, j \in 1..Len(resp.inserted) :
              (/\ i # j
               /\ resp.inserted[i].source_type = "bank"
               /\ resp.inserted[j].source_type = "bank"
               /\ resp.inserted[i].archive_reference # Null)
              => resp.inserted[i].archive_reference
                     # resp.inserted[j].archive_reference
        /\ resp.written => LedgerWritten = resp.inserted

\* save-transactions wrote a batch of three rows, two of which shared an
\* archive reference and one of which had its own
C3_Witness ==
    /\ resp.op = "save-transactions"
    /\ resp.written
    /\ Len(resp.batch) = 3
    /\ Len(resp.inserted) = 3
    /\ \E i, j, k \in 1..3 :
          /\ i # j
          /\ Truthy(resp.batch[i].archive_reference)
          /\ resp.batch[i].archive_reference = resp.batch[j].archive_reference
          /\ Truthy(resp.batch[k].archive_reference)
          /\ C3_Sharing(resp.batch, k) = 1
          /\ ledger[i].archive_reference = Null
          /\ ledger[j].archive_reference = Null
          /\ ledger[k].archive_reference = resp.batch[k].archive_reference

-----------------------------------------------------------------------------
(* The import pages: ImportPage (screenshot and CSV modes) and               *)
(* ScreenshotPage.  A page shows what an extraction or a parsed file gave,   *)
(* flagged by check-duplicates, and sends it to a persistence endpoint on    *)
(* confirm.  The extraction and the parsing of the file are the inputs of    *)
(* the process actions; amounts are whole numbers of major units.            *)

idPi == <<"p", "i", "_", "1">>
idArch == <<"6", "7", "0", "0", "0", "1">>

startsWith(s, prefix) ==
    Len(s) >= Len(prefix) /\ SubSeq(s, 1, Len(prefix)) = prefix

\* a transaction of the process-screenshot response; exists is "undefined"
\* until a page sets the flag
Extracted(sp, ar, br, am, cu, cp) ==
    [stripe_payment_id |-> sp, archive_reference |-> ar, bank_reference |-> br,
     amount |-> am, currency |-> cu, counterparty |-> cp, exists |-> "undefined"]

ExtractedInputs ==
    { Extracted(idPi, Null, Null, 1, USD, Null),
      Extracted(Null, idArch, Null, 2, nok, idA),
      Extracted(Null, idArch, idC, 2, nok, Null),
      Extracted(idA, idArch, Null, 2, nok, idA),
      Extracted(Null, Null, idC, 2, nok, idA),
      Extracted(idC, Null, Null, 1, Null, Null) }

\* a record of a parsed file as the CSV mode keeps it
Parsed(csvTxn, csvFormat) ==
    [f \in DOMAIN csvTxn \cup {"csvFormat", "exists"} |->
        IF f = "csvFormat" THEN csvFormat
        ELSE IF f = "exists" THEN "undefined"
        ELSE csvTxn[f]]

\* page.tsx:1597-1606
parseNorwegianNumber(numStr) ==
    IF includes(removeAll(trim(numStr), {" "}), ",")
    THEN replaceFirst(removeAll(removeAll(trim(numStr), {" "}), {"."}), ",", ".")
    ELSE removeAll(trim(numStr), {" "})

\* a parsed number without a fraction, as the number it is
wholeNumber(n) == IF n.neg THEN -n.int ELSE n.int

isWhole(n) == ~n.nan /\ \A i \in 1..Len(n.frac) : n.frac[i] = "0"

\* page.tsx:1842-1844
csvBankAmount(csvTxn) ==
    parseFloat(parseNorwegianNumber(
        Or(IF Truthy(csvTxn.Ut) THEN csvTxn.Ut ELSE csvTxn.Inn, <<"0">>)))

\* page.tsx:1854: every character but digits, "." and "-" is removed
csvStripeAmount(csvTxn) ==
    parseFloat(Or(removeAll(csvTxn.Amount,
                            {c \in Range(csvTxn.Amount) :
                                ~(IsDigit(c) \/ c \in {".", "-"})}),
                  <<"0">>))

\* the records parseCSV lets through (page.tsx:1731-1738, 1799-1805) whose
\* amount is a whole number
ParsedBankInputs ==
    {Parsed(r, "bank") : r \in
        {b \in BankCsvInputs :
            /\ Truthy(b.date)
            /\ Truthy(b.Ut) \/ Truthy(b.Inn)
            /\ b.Ut # <<>> /\ b.Inn # <<>>
            /\ b.Arkivref # <<>> /\ b.Referanse # <<>>
            /\ isWhole(csvBankAmount(b))}}

ParsedStripeInputs ==
    {Parsed(r, "stripe") : r \in
        {c \in StripeCsvInputs :
            /\ Truthy(c.PaymentIntentID)
            /\ Truthy(c.Amount)
            /\ c.Currency # Null /\ c.date # Null
            /\ isWhole(csvStripeAmount(c))}}

\* the fetch of /api/check-duplicates: the handler's answer, or no answer
pageCheck(transactions, table, outcome) ==
    IF outcome = "network"
    THEN CheckResp(0, "Failed to fetch", FALSE, FALSE, {}, <<>>)
    ELSE checkDuplicatesPOST([op |-> "check-duplicates", isArray |-> TRUE,
                              transactions |-> transactions],
                             table, outcome = "readError")

CheckOutcomes == {"ok", "readError", "network"}

\* page.tsx:1403-1406
matchedIdsSet(checkData) ==
    {trim(toLowerCase(id)) : id \in checkData.matchedExtractedIds}

\* page.tsx:1410-1418
pageIdentifier(t) ==
    IF Truthy(t.archive_reference) THEN t.archive_reference
    ELSE IF Truthy(t.stripe_payment_id) THEN t.stripe_payment_id
    ELSE IF Truthy(t.bank_reference) THEN t.bank_reference
    ELSE <<>>

flag(b) == IF b THEN "true" ELSE "false"

\* on a failed check every transaction is flagged as existing
importPagePreview_FailClosed(extracted, check) ==
    [i \in 1..Len(extracted) |-> [extracted[i] EXCEPT !.exists = "true"]]

\* page.tsx:1386-1433: the preview of the screenshot mode
importPagePreview(extracted, check) ==
    IF check.status = 200
    THEN [i \in 1..Len(extracted) |->
             [extracted[i] EXCEPT !.exists =
                 flag(trim(toLowerCase(pageIdentifier(extracted[i])))
                          \in matchedIdsSet(check))]]
    ELSE extracted

\* screenshot/page.tsx:67-125: toLowerCase of an absent stripe_payment_id
\* throws inside the map and the catch shows the extraction as it is
screenshotPagePreview(extracted, check) ==
    IF /\ check.status = 200
       /\ \A i \in 1..Len(extracted) : extracted[i].stripe_payment_id # Null
    THEN [i \in 1..Len(extracted) |->
             [extracted[i] EXCEPT !.exists =
                 flag(trim(toLowerCase(extracted[i].stripe_payment_id))
                          \in matchedIdsSet(check))]]
    ELSE extracted

\* page.tsx:1840-1862
csvCandidate(csvTxn) ==
    IF csvTxn.csvFormat = "bank"
    THEN Candidate(Null, csvTxn.Arkivref, csvTxn.Referanse,
                   wholeNumber(csvBankAmount(csvTxn)), nok)
    ELSE Candidate(csvTxn.PaymentIntentID, Null, Null,
                   wholeNumber(csvStripeAmount(csvTxn)),
                   Or(toLowerCase(csvTxn.Currency), usd))

csvCandidates(parsed) == [i \in 1..Len(parsed) |-> csvCandidate(parsed[i])]

\* page.tsx:1885-1890
csvIdentifier(csvTxn) ==
    IF csvTxn.csvFormat = "bank"
    THEN Or(Or(csvTxn.Arkivref, csvTxn.Referanse), <<>>)
    ELSE Or(csvTxn.PaymentIntentID, <<>>)

\* page.tsx:1873-1909: the preview of the CSV mode
csvPreview(parsed, check) ==
    IF check.status = 200
    THEN [i \in 1..Len(parsed) |->
             [parsed[i] EXCEPT !.exists =
                 flag(trim(toLowerCase(csvIdentifier(parsed[i])))
                          \in matchedIdsSet(check))]]
    ELSE parsed

\* page.tsx:1448 and screenshot/page.tsx:138
notExisting(transactions) ==
    pick(transactions,
         {i \in 1..Len(transactions) : transactions[i].exists # "true"}, 1)

\* page.tsx:1468-1473
hasStripeId(t) ==
    /\ Truthy(t.stripe_payment_id)
    /\ \/ startsWith(t.stripe_payment_id, <<"p", "i", "_">>)
       \/ startsWith(t.stripe_payment_id, <<"c", "h", "_">>)
       \/ startsWith(t.stripe_payment_id, <<"i", "n", "_">>)

isBankStatement(t) ==
    \/ Truthy(t.archive_reference) \/ Truthy(t.bank_reference)
    \/ ~hasStripeId(t) /\ Truthy(t.counterparty)

\* page.tsx:1486-1488
hasActualArchiveRef(t) ==
    /\ Truthy(t.archive_reference)
    /\ ~startsWith(t.archive_reference, <<"b", "a", "n", "k", "_">>)
    /\ Len(t.archive_reference) > 5

\* the source_reference is taken from the archive reference first
transactionToSave_ArchiveFirst(t, isExpenseImport) ==
    SaveInput(IF isExpenseImport THEN "expense" ELSE "income",
              t.amount * 100,
              toLowerCase(t.currency),
              IF isBankStatement(t) THEN "bank" ELSE "stripe",
              Or(t.archive_reference, Or(t.stripe_payment_id, t.bank_reference)),
              Null,
              IF hasActualArchiveRef(t) THEN t.archive_reference ELSE Null)

\* page.tsx:1466-1507: the row handleConfirmScreenshot sends for a transaction
transactionToSave(t, isExpenseImport) ==
    SaveInput(IF isExpenseImport THEN "expense" ELSE "income",
              t.amount * 100,
              toLowerCase(t.currency),
              IF isBankStatement(t) THEN "bank" ELSE "stripe",
              Or(t.stripe_payment_id, Or(t.archive_reference, t.bank_reference)),
              Null,
              IF hasActualArchiveRef(t) THEN t.archive_reference ELSE Null)

transactionsToSave(newTransactions, isExpenseImport) ==
    [i \in 1..Len(newTransactions) |->
        transactionToSave(newTransactions[i], isExpenseImport)]

\* screenshot/page.tsx:149-155: the transactions are sent as they are shown
rawToSave(newTransactions) ==
    [i \in 1..Len(newTransactions) |->
        SaveInput("", newTransactions[i].amount, newTransactions[i].currency, "",
                  Null, newTransactions[i].stripe_payment_id,
                  newTransactions[i].archive_reference)]

-----------------------------------------------------------------------------
(* SpecPage: one user at the import pages, the table starting empty         *)

\* the state of a page: phase is "nofile" (nothing chosen, or the last import
\* went through), "file" (a file is chosen) or "preview"
PageState(phase, component, mode, transactions, csvSelected, isExpenseImport, error) ==
    [phase |-> phase, component |-> component, mode |-> mode,
     transactions |-> transactions, csvSelected |-> csvSelected,
     isExpenseImport |-> isExpenseImport, error |-> error]

NoFilePage == PageState("nofile", "none", "none", <<>>, {}, FALSE, FALSE)

FilePage == PageState("file", "none", "none", <<>>, {}, FALSE, FALSE)

InitPage ==
    /\ ledger = <<>>
    /\ req = NoReq
    /\ resp = NoResp
    /\ page = NoFilePage

\* the longest list of transactions a page shows
MaxPreview == 2

\* the lists a process action may be given: at most MaxPreview entries that
\* the table has room for
Lists(inputs, lo) ==
    SeqsOf(inputs, lo,
           IF MaxRows - Len(ledger) < MaxPreview THEN MaxRows - Len(ledger)
           ELSE MaxPreview)

CheckRequest(transactions) ==
    [op |-> "check-duplicates", isArray |-> TRUE, transactions |-> transactions]

\* handleFileChange / handleCsvFileChange: a file is chosen, what was shown
\* is cleared; the exchange with the server that went before is over
SelectFile ==
    /\ page' = FilePage
    /\ req' = NoReq
    /\ resp' = NoResp
    /\ UNCHANGED ledger

\* page.tsx:1343-1445, from the extraction on
ProcessScreenshot ==
    /\ page.phase = "file"
    /\ \E extracted \in Lists(ExtractedInputs, 0), outcome \in CheckOutcomes,
          isExpenseImport \in BOOLEAN :
           LET check == pageCheck(extracted, ledger, outcome)
           IN  /\ req' = IF extracted = <<>> THEN NoReq ELSE CheckRequest(extracted)
               /\ resp' = IF extracted = <<>> THEN NoResp ELSE check
               /\ page' = PageState("preview", "ImportPage", "screenshot",
                                    IF extracted = <<>> THEN <<>>
                                    ELSE importPagePreview(extracted, check),
                                    {}, isExpenseImport, FALSE)
    /\ UNCHANGED ledger

\* what a page is left with by the answer of a persistence endpoint
pageAfterImport(answer) ==
    IF answer.status = 200
    THEN [NoFilePage EXCEPT !.error = (answer.imported = 0)]
    ELSE [page EXCEPT !.error = TRUE]

\* page.tsx:1447-1547
HandleConfirmScreenshot ==
    /\ page.phase = "preview"
    /\ page.component = "ImportPage" /\ page.mode = "screenshot"
    /\ LET newTransactions == notExisting(page.transactions)
       IN  IF \/ newTransactions = <<>>
              \/ \E i \in 1..Len(newTransactions) :
                    newTransactions[i].currency = Null
           THEN \* nothing to save, or toLowerCase throws before the fetch
                /\ page' = [page EXCEPT !.error = TRUE]
                /\ UNCHANGED <<ledger, req, resp>>
           ELSE \E failed \in Failures({"stripe", "archive", "source", "insert"}) :
                   LET body == [op |-> "save-transactions", isArray |-> TRUE,
                                transactions |->
                                    transactionsToSave(newTransactions,
                                                       page.isExpenseImport)]
                       out  == saveTransactionsPOST(body, ledger,
                                   "stripe" \in failed, "archive" \in failed,
                                   "source" \in failed, "insert" \in failed)
                   IN  /\ req' = body
                       /\ resp' = out.resp
                       /\ ledger' = out.table
                       /\ page' = pageAfterImport(out.resp)

\* screenshot/page.tsx:35-134, from the extraction on
ScreenshotPageProcess ==
    /\ page.phase = "file"
    /\ \E extracted \in Lists(ExtractedInputs, 0), outcome \in CheckOutcomes :
           LET check == pageCheck(extracted, ledger, outcome)
           IN  /\ req' = IF extracted = <<>> THEN NoReq ELSE CheckRequest(extracted)
               /\ resp' = IF extracted = <<>> THEN NoResp ELSE check
               /\ page' = PageState("preview", "ScreenshotPage", "screenshot",
                                    IF extracted = <<>> THEN <<>>
                                    ELSE screenshotPagePreview(extracted, check),
                                    {}, FALSE, FALSE)
    /\ UNCHANGED ledger

\* screenshot/page.tsx:136-175
ScreenshotPageConfirm ==
    /\ page.phase = "preview"
    /\ page.component = "ScreenshotPage"
    /\ LET newTransactions == notExisting(page.transactions)
       IN  IF newTransactions = <<>>
           THEN /\ page' = [page EXCEPT !.error = TRUE]
                /\ UNCHANGED <<ledger, req, resp>>
           ELSE \E failed \in Failures({"stripe", "archive", "source", "insert"}) :
                   LET body == [op |-> "save-transactions", isArray |-> TRUE,
                                transactions |-> rawToSave(newTransactions)]
                       out  == saveTransactionsPOST(body, ledger,
                                   "stripe" \in failed, "archive" \in failed,
                                   "source" \in failed, "insert" \in failed)
                   IN  /\ req' = body
                       /\ resp' = out.resp
                       /\ ledger' = out.table
                       /\ page' = pageAfterImport(out.resp)

\* page.tsx:1826-1920, from the parsed file on; parseCSV rejects a file
\* without a record
ProcessCSV ==
    /\ page.phase = "file"
    /\ \E parsed \in Lists(ParsedBankInputs, 1) \cup Lists(ParsedStripeInputs, 1),
          outcome \in CheckOutcomes :
           LET check == pageCheck(csvCandidates(parsed), ledger, outcome)
           IN  /\ req' = CheckRequest(csvCandidates(parsed))
               /\ resp' = check
               /\ page' = PageState("preview", "ImportPage", "csv",
                                    csvPreview(parsed, check),
                                    1..Len(parsed), FALSE, FALSE)
    /\ UNCHANGED ledger

\* page.tsx:1927-1984
HandleConfirmCSV ==
    /\ page.phase = "preview"
    /\ page.component = "ImportPage" /\ page.mode = "csv"
    /\ LET selectedTransactions == pick(page.transactions, page.csvSelected, 1)
       IN  IF selectedTransactions = <<>>
           THEN /\ page' = [page EXCEPT !.error = TRUE]
                /\ UNCHANGED <<ledger, req, resp>>
           ELSE IF selectedTransactions[1].csvFormat = "bank"
           THEN \E failed \in Failures({"archive", "source", "insert"}),
                   random \in [1..Len(selectedTransactions) -> RandomSuffixes] :
                   LET body == [op |-> "import-bank-csv", isArray |-> TRUE,
                                transactions |-> selectedTransactions]
                       out  == importBankCsvPOST(body, ledger, random,
                                   "archive" \in failed, "source" \in failed,
                                   "insert" \in failed)
                   IN  /\ req' = body
                       /\ resp' = out.resp
                       /\ ledger' = out.table
                       /\ page' = pageAfterImport(out.resp)
           ELSE \E failed \in Failures({"projects", "check", "insert"}) :
                   LET body == [op |-> "import-stripe-csv", isArray |-> TRUE,
                                transactions |-> selectedTransactions]
                       out  == importStripeCsvPOST(body, ledger,
                                   "projects" \in failed, "check" \in failed,
                                   "insert" \in failed)
                   IN  /\ req' = body
                       /\ resp' = out.resp
                       /\ ledger' = out.table
                       /\ page' = pageAfterImport(out.resp)

NextPage ==
    \/ SelectFile
    \/ ProcessScreenshot
    \/ HandleConfirmScreenshot
    \/ ScreenshotPageProcess
    \/ ScreenshotPageConfirm
    \/ ProcessCSV
    \/ HandleConfirmCSV

SpecPage == InitPage /\ [][NextPage]_vars

-----------------------------------------------------------------------------
(* The claims about the import pages, under SpecPage *)

\* the answer in flight is a failed check: the handler refused the request,
\* its read failed, or the fetch got no answer
CheckFailed == resp.op = "check-duplicates" /\ resp.status # 200

PersistOps == {"save-transactions", "import-bank-csv", "import-stripe-csv"}

\* a preview whose check failed shows what the check was asked about, no
\* transaction carrying an exists flag, all of them selected
C6_PreviewAfterFailedCheck ==
    (page.phase = "preview" /\ CheckFailed) =>
        /\ Len(page.transactions) = Len(req.transactions)
        /\ \A i \in 1..Len(page.transactions) :
              /\ page.transactions[i].exists = "undefined"
              /\ IF page.mode = "csv"
                 THEN csvCandidate(page.transactions[i]) = req.transactions[i]
                 ELSE page.transactions[i] = req.transactions[i]
        /\ notExisting(page.transactions) = page.transactions
        /\ page.mode = "csv" => page.csvSelected = 1..Len(page.transactions)

\* a confirm that follows a failed check and reaches an endpoint sends one
\* row for every transaction of the preview
C6_ConfirmAfterFailedCheck ==
    (page.phase = "preview" /\ CheckFailed /\ req'.op \in PersistOps) =>
        /\ Len(req'.transactions) = Len(page.transactions)
        /\ page.mode = "csv" => req'.transactions = page.transactions

\* C6: in ImportPage (screenshot and CSV mode) and ScreenshotPage, when the
\* check-duplicates call fails (an answer that is not ok, or no answer), every
\* extracted or parsed transaction is shown in the preview with no exists
\* flag, so none is treated as a duplicate, all stay selected, and a confirm
\* that reaches the save or import endpoint sends every one of them.
C6_SoftFailShowsAll ==
    /\ []C6_PreviewAfterFailedCheck
    /\ [][C6_ConfirmAfterFailedCheck]_vars

\* the check failed on its read while the table already held the payment the
\* preview shows, and the preview shows it unflagged
C6_Witness ==
    /\ page.phase = "preview"
    /\ page.component = "ImportPage"
    /\ resp.op = "check-duplicates"
    /\ resp.status = 500
    /\ \E i \in 1..Len(page.transactions), k \in 1..Len(ledger) :
          /\ page.mode = "screenshot"
          /\ Truthy(page.transactions[i].stripe_payment_id)
          /\ ledger[k].source_reference = page.transactions[i].stripe_payment_id
          /\ page.transactions[i].exists = "undefined"

\* the pairs of rows of the batch in flight that share an archive reference,
\* when every row of the batch was written
C4_SharedPairs ==
    IF /\ resp.op \in {"save-transactions", "import-bank-csv"}
       /\ resp.written
       /\ Len(resp.inserted) = Len(resp.batch)
    THEN {p \in (1..Len(resp.batch)) \X (1..Len(resp.batch)) :
             /\ p[1] # p[2]
             /\ Truthy(resp.batch[p[1]].archive_reference)
             /\ resp.batch[p[1]].archive_reference
                    = resp.batch[p[2]].archive_reference}
    ELSE {}

\* C4 as stated: when two candidates of one import batch derive the same
\* archive reference, both rows are written with archive_reference null and
\* with source_reference values that differ from each other.
C4_DistinctSourceReferences ==
    \A p \in C4_SharedPairs :
        /\ LedgerWritten[p[1]].archive_reference = Null
        /\ LedgerWritten[p[2]].archive_reference = Null
        /\ LedgerWritten[p[1]].source_reference
               # LedgerWritten[p[2]].source_reference

\* the source_reference an endpoint derives for a row of its batch
C4_Derived(i) ==
    IF resp.op = "save-transactions"
    THEN Or(resp.batch[i].source_reference, resp.batch[i].stripe_payment_id)
    ELSE resp.batch[i].archive_reference

\* both rows of a sharing pair are written with archive_reference null, each
\* with the source_reference derived for it alone
C4_WrittenWithDerivedReference ==
    \A p \in C4_SharedPairs :
        /\ LedgerWritten[p[1]].archive_reference = Null
        /\ LedgerWritten[p[2]].archive_reference = Null
        /\ LedgerWritten[p[1]].source_reference = C4_Derived(p[1])
        /\ LedgerWritten[p[2]].source_reference = C4_Derived(p[2])
        /\ resp.op = "import-bank-csv" =>
              LedgerWritten[p[1]].source_reference
                  = LedgerWritten[p[2]].source_reference

\* the rows handleConfirmScreenshot sends take their source_reference from
\* stripe_payment_id, else archive_reference, else bank_reference
C4_PageDerivation ==
    (/\ page.phase = "preview"
     /\ page.component = "ImportPage" /\ page.mode = "screenshot"
     /\ req'.op = "save-transactions") =>
        LET shown == notExisting(page.transactions)
        IN  /\ Len(req'.transactions) = Len(shown)
            /\ \A i \in 1..Len(shown) :
                  /\ req'.transactions[i].source_reference
                         = Or(shown[i].stripe_payment_id,
                              Or(shown[i].archive_reference,
                                 shown[i].bank_reference))
                  /\ req'.transactions[i].archive_reference
                         \in {Null, shown[i].archive_reference}

\* C4 as the code has it: when two candidates of one import batch derive the
\* same archive reference and the batch is written, both rows are written
\* with archive_reference null and each with the source_reference derived for
\* it alone (save-transactions: source_reference, else stripe_payment_id;
\* import-bank-csv: the archive reference itself; handleConfirmScreenshot:
\* stripe_payment_id, else archive_reference, else bank_reference), so two
\* rows that take it from the shared archive reference carry the same
\* source_reference.
C4_SharedArchiveRefRowsWritten ==
    /\ []C4_WrittenWithDerivedReference
    /\ [][C4_PageDerivation]_vars

\* two transactions of one screenshot derived the archive reference 670001
\* and were written with archive_reference null, both with source_reference
\* 670001
C4_Witness ==
    /\ resp.op = "save-transactions"
    /\ resp.written
    /\ Len(resp.batch) = 2
    /\ resp.batch[1].archive_reference = idArch
    /\ resp.batch[2].archive_reference = idArch
    /\ Len(ledger) >= 2
    /\ LedgerWritten[1].archive_reference = Null
    /\ LedgerWritten[2].archive_reference = Null
    /\ LedgerWritten[1].source_reference = idArch
    /\ LedgerWritten[2].source_reference = idArch

-----------------------------------------------------------------------------
(* SpecCalls: one caller sends check-duplicates requests one after another  *)
(* to the same server and keeps what it asked and what it was answered      *)

\* the number of requests the caller sends
MaxCalls == 2

\* the caller: the requests it sent and the answers it got, in order
CallerPage(asked, answers) ==
    [phase |-> "caller", asked |-> asked, answers |-> answers]

InitCalls ==
    /\ ledger \in MatchLedgers
    /\ req = NoReq
    /\ resp = NoResp
    /\ page = CallerPage(<<>>, <<>>)

\* what the caller sends next: anything at first, then the same request once
\* more or a request for one candidate
CallRequests ==
    IF page.asked = <<>> THEN CheckRequests
    ELSE {page.asked[Len(page.asked)]}
         \cup {r \in CheckRequests : Len(r.transactions) = 1}

\* the handler answers and also writes the first valid candidate down
CheckDuplicatesCall_Recording ==
    /\ Len(page.asked) < MaxCalls
    /\ \E r \in CallRequests, readError \in BOOLEAN :
          LET answer == checkDuplicatesPOST(r, ledger, readError)
          IN  /\ req' = r
              /\ resp' = answer
              /\ page' = CallerPage(Append(page.asked, r),
                                    Append(page.answers, answer))
              /\ ledger' = IF answer.status = 200
                           THEN Append(ledger,
                                    Row("manual", Null, Null,
                                        validTransactions(r.transactions)[1].amount,
                                        usd, "income"))
                           ELSE ledger

\* route.ts:61-165 run for the caller's next request
CheckDuplicatesCall ==
    /\ Len(page.asked) < MaxCalls
    /\ \E r \in CallRequests, readError \in BOOLEAN :
          LET answer == checkDuplicatesPOST(r, ledger, readError)
          IN  /\ req' = r
              /\ resp' = answer
              /\ page' = CallerPage(Append(page.asked, r),
                                    Append(page.answers, answer))
              /\ ledger' = ledger

NextCalls == CheckDuplicatesCall

SpecCalls == InitCalls /\ [][NextCalls]_vars

C12_LedgerUntouched ==
    resp'.op = "check-duplicates" => ledger' = ledger

\* every answer is the one the handler gives for its request on the table
\* alone, whatever was asked before
C12_AnswerFromRequestAndTable ==
    \A i \in 1..Len(page.asked) :
        \E readError \in BOOLEAN :
            page.answers[i] = checkDuplicatesPOST(page.asked[i], ledger, readError)

\* C12: a check-duplicates request has no effect on the ledger: for every
\* request, valid or not, the ledger after the request is the ledger before
\* it, and nothing is carried from one request to the next: each answer
\* depends on its request and the table only.
C12_NoEffectNoCarriedState ==
    /\ [][C12_LedgerUntouched]_vars
    /\ []C12_AnswerFromRequestAndTable

\* a request that is not an array, then a valid one that matched, both
\* answered on a table of two rows
C12_Witness ==
    /\ Len(page.asked) = 2
    /\ ~page.asked[1].isArray
    /\ page.answers[1].status = 400
    /\ page.answers[2].status = 200
    /\ page.answers[2].matchDetails # <<>>
    /\ Len(ledger) = 2

-----------------------------------------------------------------------------
(* The Zapier webhook (webhooks/zapier/route.ts:1-135) and its table         *)
(* (supabase-transactions-schema.sql: stripe_payment_id, amount, currency)   *)

\* a JSON value of an amount field: a number, a string, or absent
Num(n) == [kind |-> "number", number |-> n, string |-> <<>>]
Str(s) == [kind |-> "string", number |-> 0, string |-> s]
Undefined == [kind |-> "undefined", number |-> 0, string |-> <<>>]

\* route.ts:35-57; every character but digits, "." and "-" is removed from a
\* string, and a string that gives no number leaves the amount 0
zapierAmount(body) ==
    IF body.amount.kind = "number" THEN body.amount.number
    ELSE IF body.amount_total.kind = "number" THEN body.amount_total.number
    ELSE IF body.amount_received.kind = "number" THEN body.amount_received.number
    ELSE IF body.amount.kind = "string"
    THEN LET numericValue ==
                 parseFloat(removeAll(body.amount.string,
                     {c \in Range(body.amount.string) :
                         ~(IsDigit(c) \/ c \in {".", "-"})}))
         IN  IF numericValue.nan THEN 0
             ELSE IF includes(body.amount.string, ".")
             THEN roundTimes100(numericValue)
             ELSE IF numericValue.neg THEN -numericValue.int
             ELSE numericValue.int
    ELSE 0

\* route.ts:21-30
zapierPaymentId(body) == Or(body.stripe_payment_id, body.id)

zapierHasAmount(body) ==
    \/ body.amount.kind # "undefined"
    \/ body.amount_total.kind # "undefined"
    \/ body.amount_received.kind # "undefined"

\* route.ts:64-68
zapierTransaction(body) ==
    [stripe_payment_id |-> zapierPaymentId(body),
     amount |-> zapierAmount(body),
     currency |-> toLowerCase(Or(body.currency, Or(body.amount_currency, usd)))]

\* upsert(transaction, {onConflict: "stripe_payment_id"}): the row with the
\* same payment id is replaced, else the row is added
upsert(table, transaction, unavailable) ==
    IF unavailable THEN [error |-> TRUE, table |-> table]
    ELSE IF \E i \in 1..Len(table) :
                table[i].stripe_payment_id = transaction.stripe_payment_id
    THEN [error |-> FALSE,
          table |-> [i \in 1..Len(table) |->
                        IF table[i].stripe_payment_id
                               = transaction.stripe_payment_id
                        THEN transaction ELSE table[i]]]
    ELSE [error |-> FALSE, table |-> Append(table, transaction)]

ZapierResp(status, type, transaction) ==
    [op |-> "zapier", status |-> status, type |-> type,
     transaction |-> transaction]

\* a number is multiplied by 100 like a major-unit string
zapierPOST_Remultiply(body, table, unavailable) ==
    IF ~body.secretOk
    THEN [resp |-> ZapierResp(401, "none", Null), table |-> table]
    ELSE IF Truthy(zapierPaymentId(body)) /\ zapierHasAmount(body)
    THEN IF upsert(table, zapierTransaction(body), unavailable).error
         THEN [resp |-> ZapierResp(500, "transaction", zapierTransaction(body)),
               table |-> table]
         ELSE [resp |-> ZapierResp(200, "transaction", zapierTransaction(body)),
               table |-> upsert(table,
                                [zapierTransaction(body) EXCEPT !.amount =
                                    IF body.amount.kind = "number" THEN @ * 100
                                    ELSE @],
                                unavailable).table]
    ELSE [resp |-> ZapierResp(IF unavailable THEN 500 ELSE 200, "feed", Null),
          table |-> table]

\* route.ts:4-135: POST; secretOk is false when a secret is expected and the
\* header does not carry it, unavailable when the database call fails
zapierPOST(body, table, unavailable) ==
    IF ~body.secretOk
    THEN [resp |-> ZapierResp(401, "none", Null), table |-> table]
    ELSE IF Truthy(zapierPaymentId(body)) /\ zapierHasAmount(body)
    THEN IF upsert(table, zapierTransaction(body), unavailable).error
         THEN [resp |-> ZapierResp(500, "transaction", zapierTransaction(body)),
               table |-> table]
         ELSE [resp |-> ZapierResp(200, "transaction", zapierTransaction(body)),
               table |-> upsert(table, zapierTransaction(body),
                                unavailable).table]
    ELSE \* a feed item: nothing of the transactions table is touched
         [resp |-> ZapierResp(IF unavailable THEN 500 ELSE 200, "feed", Null),
          table |-> table]

\* the longest raw amount string built from AmountChars
MaxRaw == 2

AmountChars == {"1", "5", ".", ",", "-"}

\* raw amount strings: the formats the sources name, and every string of
\* AmountChars up to MaxRaw characters
RawAmounts ==
    { <<"3", "9", "9", "9">>,
      <<"3", "9", "9", "9", ".", "0", "0">>,
      <<"3", ",", "9", "9", "9", ".", "0", "0">>,
      <<"3", "9", "9", "9", ",", "0", "0">>,
      <<"N", "O", "K", " ", "3", ",", "9", "9", "9", ".", "0", "0">>,
      <<"7", "7", ".", "5", "0">>,
      <<"-", "1", ".", "5">>,
      <<"1", ".", "0", "0", "5">> }
    \cup SeqsOf(AmountChars, 0, MaxRaw)

ZapierAmounts ==
    {Undefined, Num(0), Num(3999), Num(399900), Num(-5)}
    \cup {Str(s) : s \in RawAmounts}

\* the rest of a payload: ids, the other amount fields, currencies, secret
ZapierBody(sp, id, amount, total, received, cu, acu, secretOk) ==
    [stripe_payment_id |-> sp, id |-> id, amount |-> amount,
     amount_total |-> total, amount_received |-> received,
     currency |-> cu, amount_currency |-> acu, secretOk |-> secretOk]

ZapierBodies ==
    UNION {{ ZapierBody(idPi, Null, a, Undefined, Undefined, nok, Null, TRUE),
             ZapierBody(Null, idC, a, Undefined, Undefined, Null, USD, TRUE),
             ZapierBody(idPi, Null, a, Num(700), Undefined, Null, Null, TRUE),
             ZapierBody(idPi, Null, a, Undefined, Num(800), USD, Null, TRUE),
             ZapierBody(Null, Null, a, Undefined, Undefined, Null, Null, TRUE),
             ZapierBody(idPi, Null, a, Undefined, Undefined, nok, Null, FALSE) }
           : a \in ZapierAmounts}

InitZapier ==
    /\ ledger = <<>>
    /\ req = NoReq
    /\ resp = NoResp
    /\ page = NoPage

ZapierWebhook ==
    /\ resp = NoResp
    /\ \E body \in ZapierBodies, unavailable \in BOOLEAN :
          LET out == zapierPOST(body, ledger, unavailable)
          IN  /\ req' = [op |-> "zapier", body |-> body]
              /\ resp' = out.resp
              /\ ledger' = out.table
    /\ UNCHANGED page

NextZapier == ZapierWebhook \/ Deliver

SpecZapier == InitZapier /\ [][NextZapier]_vars

-----------------------------------------------------------------------------
(* The claims about amounts on the webhook path, under SpecZapier *)

\* the webhook stored a transaction whose amount came from the string in
\* the amount field
ZapierStoredString ==
    /\ resp.op = "zapier"
    /\ resp.status = 200
    /\ resp.type = "transaction"
    /\ req.body.amount.kind = "string"
    /\ req.body.amount_total.kind # "number"
    /\ req.body.amount_received.kind # "number"

\* the row of the table the webhook's answer is about
ZapierStoredRow ==
    CHOOSE r \in Range(ledger) :
        r.stripe_payment_id = resp.transaction.stripe_payment_id

\* C13 as stated: for any raw amount string, the Zapier webhook,
\* import-stripe-csv's convertAmountToMinorUnits and import-bank-csv's
\* convertAmountToMinorUnits produce the same minor-unit integer (wherever
\* they produce one).
C13_SameIntegerOnEveryPath ==
    ZapierStoredString =>
        LET raw    == req.body.amount.string
            stripe == stripeAmountToMinorUnits(raw)
            bank   == bankAmountToMinorUnits(raw)
        IN  /\ ~stripe.nan => ZapierStoredRow.amount = stripe.value
            /\ ~bank.nan => ZapierStoredRow.amount = bank.value
            /\ (~stripe.nan /\ ~bank.nan) => stripe.value = bank.value

\* a string of digits only
C14_IsPlainInteger(s) == s # <<>> /\ \A i \in 1..Len(s) : IsDigit(s[i])

\* digits, a decimal point, two digits
C14_IsTwoDecimals(s) ==
    /\ Len(s) >= 4
    /\ s[Len(s) - 2] = "."
    /\ \A i \in 1..Len(s) : i # Len(s) - 2 => IsDigit(s[i])

\* C14: in the Zapier webhook an amount given as a number, or as a string
\* with no decimal point, is stored unchanged (not multiplied by 100); an
\* amount given as a string containing a decimal point is stored as
\* round(value * 100); so "3999.00" and the integer 399900 both store 399900
\* and an already-minor-unit integer is never re-multiplied.
C14_ZapierAmountStored ==
    (resp.op = "zapier" /\ resp.status = 200 /\ resp.type = "transaction") =>
        LET amount == req.body.amount
            stored == ZapierStoredRow.amount
            value  == parseFloat(removeAll(amount.string,
                          {c \in Range(amount.string) :
                              ~(IsDigit(c) \/ c \in {".", "-"})}))
        IN  /\ amount.kind = "number" => stored = amount.number
            /\ (ZapierStoredString /\ ~value.nan) =>
                  /\ ~includes(amount.string, ".")
                        => stored = IF value.neg THEN -value.int ELSE value.int
                  /\ includes(amount.string, ".")
                        => stored = roundTimes100(value)
            /\ (ZapierStoredString /\ C14_IsPlainInteger(amount.string))
                  => stored = digitsValue(amount.string)
            /\ (ZapierStoredString /\ C14_IsTwoDecimals(amount.string))
                  => stored = digitsValue(removeAll(amount.string, {"."}))

\* the webhook stored 399900 for the string "3999.00", and the row it
\* replaced or added carries it
C14_Witness ==
    /\ ZapierStoredString
    /\ req.body.amount.string = <<"3", "9", "9", "9", ".", "0", "0">>
    /\ ZapierStoredRow.amount = 399900

-----------------------------------------------------------------------------
(* The screenshot pipeline's amounts, under SpecPage *)

\* a confirm of a screenshot preview whose rows were all written
C15_ConfirmWroteAll ==
    /\ page.phase = "preview"
    /\ page.mode = "screenshot"
    /\ resp # resp'
    /\ resp'.op = "save-transactions"
    /\ resp'.written
    /\ Len(resp'.inserted) = Len(notExisting(page.transactions))
    /\ Len(ledger') = Len(ledger) + Len(resp'.inserted)

C15_StoredTimes100 ==
    C15_ConfirmWroteAll =>
        \A i \in 1..Len(notExisting(page.transactions)) :
            ledger'[Len(ledger) + i].amount
                = notExisting(page.transactions)[i].amount * 100

\* C15 as stated: along the screenshot pipeline (extraction, the page's
\* confirm, save-transactions) an extracted major-unit amount is multiplied
\* by 100 exactly once before it is stored, on every version of the confirm
\* handler (ImportPage's handleConfirmScreenshot and ScreenshotPage's
\* handleConfirm).
C15_MultipliedOnceOnEveryVersion == [][C15_StoredTimes100]_vars

-----------------------------------------------------------------------------
(* Rejected records of the CSV importers, under Spec *)

\* the records of the request in flight that cannot be normalized
C16_Rejected ==
    {i \in 1..Len(req.transactions) :
        IF resp.op = "import-stripe-csv"
        THEN ~stripeRow(req.transactions[i]).ok
        ELSE ~bankRow(req.transactions[i], <<"x">>).ok}

\* the references a record that can be normalized may be looked up by and
\* written with (a generated one ends in one of the random suffixes)
C16_References(i) ==
    IF resp.op = "import-stripe-csv"
    THEN {stripeRow(req.transactions[i]).row.source_reference}
    ELSE {bankRow(req.transactions[i], r).row.source_reference :
             r \in RandomSuffixes}

\* C16 as stated: in import-stripe-csv and import-bank-csv a record that
\* cannot be normalized is left out of the insert and reported in the
\* response's errors list, and it does not abort the batch: whenever the
\* handler answers without a failed database call, the errors list has one
\* entry per such record, the batch is refused only if no record is valid,
\* and every valid record whose reference the table did not hold is written.
C16_RejectedReportedOthersImported ==
    (/\ resp.op \in {"import-stripe-csv", "import-bank-csv"}
     /\ req.isArray
     /\ resp.status \in {200, 400}) =>
        /\ resp.errors = Cardinality(C16_Rejected)
        /\ resp.status = 400 <=> C16_Rejected = 1..Len(req.transactions)
        /\ Len(resp.inserted) <= Len(req.transactions) - Cardinality(C16_Rejected)
        /\ \A i \in (1..Len(req.transactions)) \ C16_Rejected :
              (\A k \in 1..Len(LedgerBefore) :
                   C16_References(i) \cap {LedgerBefore[k].source_reference,
                                           LedgerBefore[k].archive_reference}
                       = {})
              => /\ resp.written
                 /\ \E k \in 1..Len(LedgerWritten) :
                       LedgerWritten[k].source_reference \in C16_References(i)

-----------------------------------------------------------------------------
(* The identifier of a bank record, under Spec *)

\* C17 as stated, for the records import-bank-csv writes: the source_reference
\* of a bank record is its archive reference when present, otherwise its bank
\* reference when present, otherwise a key built from the record's own date,
\* amount and counterparty, so that records equal in every field get the same
\* key.
C17_BankIdentifierDerivation ==
    (/\ resp.op = "import-bank-csv"
     /\ resp.written
     /\ Len(resp.inserted) = Len(req.transactions)) =>
        \A i \in 1..Len(req.transactions) :
            LET csvTxn == req.transactions[i]
                stored == LedgerWritten[i].source_reference
            IN  /\ Truthy(csvTxn.Arkivref) => stored = csvTxn.Arkivref
                /\ (~Truthy(csvTxn.Arkivref) /\ Truthy(csvTxn.Referanse))
                      => stored = csvTxn.Referanse
                /\ (~Truthy(csvTxn.Arkivref) /\ ~Truthy(csvTxn.Referanse))
                      => \A j \in 1..Len(req.transactions) :
                            req.transactions[j] = csvTxn
                            => LedgerWritten[j].source_reference = stored

-----------------------------------------------------------------------------
(* The sign of stored amounts *)

\* C18 as stated: every row written to the ledger by save-transactions,
\* import-stripe-csv, import-bank-csv or the Zapier webhook has a non-negative
\* integer amount, the direction being carried by the type field only; so no
\* table any of them has written to holds a row with a negative amount.
C18_AmountsNonNegative ==
    \A i \in 1..Len(ledger) : ledger[i].amount \in Nat

-----------------------------------------------------------------------------
(* Authentication: the e-mail whitelist, the OAuth callback and check-auth *)

eA == <<"a", "@", "x">>
eAU == <<"A", "@", "x">>
eB == <<"b", "@", "x">>

Emails == {eA, eAU, eB}

True == <<"t", "r", "u", "e">>

\* process.env: ALLOWED_EMAILS and USE_ALLOWED_USERS_TABLE, Null when the
\* variable is undefined
Env(allowed, useTable) ==
    [ALLOWED_EMAILS |-> allowed, USE_ALLOWED_USERS_TABLE |-> useTable]

EnvLists ==
    {Null, <<>>, <<" ">>, <<",">>, eA, eB,
     <<" ">> \o eAU \o <<" ", ",">> \o eB, eB \o <<",">>}

Envs == {Env(l, t) : l \in EnvLists, t \in {Null, True, <<"1">>}}

\* the rows of allowed_users, by e-mail
AllowedUsers == {{}, {eA}, {eA, eB}}

\* ALLOWED_EMAILS?.split(",").map(e => e.trim().toLowerCase()) || []
allowedEmailsEnvUnfiltered(env) ==
    IF env.ALLOWED_EMAILS = Null THEN <<>>
    ELSE LET parts == split(env.ALLOWED_EMAILS, ",")
         IN  [i \in 1..Len(parts) |-> toLowerCase(trim(parts[i]))]

\* ... .filter(e => e.length > 0)
allowedEmailsEnv(env) ==
    SelectSeq(allowedEmailsEnvUnfiltered(env), LAMBDA e : Len(e) > 0)

\* .from("allowed_users").select("email").eq("email", email).single(): the row,
\* Null when there is none
allowedUser(table, email) == IF email \in table THEN email ELSE Null

Decision(isAllowed, whitelistConfigured, consulted) ==
    [isAllowed |-> isAllowed, whitelistConfigured |-> whitelistConfigured,
     consulted |-> consulted]

\* mutant: a failed lookup lets the user in
whitelistDecision_FailOpen(list, env, email, table, lookupError) ==
    IF Len(list) > 0
    THEN Decision(includes(list, toLowerCase(email)), TRUE, FALSE)
    ELSE IF env.USE_ALLOWED_USERS_TABLE = True
    THEN Decision(lookupError \/ allowedUser(table, toLowerCase(email)) # Null,
                  TRUE, TRUE)
    ELSE Decision(TRUE, FALSE, FALSE)

\* the whitelist decision of the callback and of check-auth, on the parsed list
whitelistDecision(list, env, email, table, lookupError) ==
    IF Len(list) > 0
    THEN Decision(includes(list, toLowerCase(email)), TRUE, FALSE)
    ELSE IF env.USE_ALLOWED_USERS_TABLE = True
    THEN Decision(~lookupError /\ allowedUser(table, toLowerCase(email)) # Null,
                  TRUE, TRUE)
    ELSE Decision(TRUE, FALSE, FALSE)

\* lib/auth.ts
isEmailAllowed(env, email, table, credentials, lookupError) ==
    LET list == allowedEmailsEnvUnfiltered(env)
    IN  IF Len(list) > 0
        THEN Decision(includes(list, toLowerCase(email)), TRUE, FALSE)
        ELSE IF env.USE_ALLOWED_USERS_TABLE = True
        THEN IF ~credentials THEN Decision(FALSE, TRUE, FALSE)
             ELSE Decision(~lookupError
                             /\ allowedUser(table, toLowerCase(email)) # Null,
                           TRUE, TRUE)
        ELSE Decision(TRUE, FALSE, FALSE)

NoDecision == Decision(FALSE, FALSE, FALSE)

\* An answer of the authentication code: the redirect target or the JSON body,
\* the calls made on the auth client in order, and the whitelist decision when
\* one was taken (decided) with the e-mail it was taken for.
AuthResp(op, status, redirect, calls, decided, email, fault, decision) ==
    [op |-> op, status |-> status, redirect |-> redirect, calls |-> calls,
     decided |-> decided, email |-> email, fault |-> fault,
     isAllowed |-> decision.isAllowed,
     whitelistConfigured |-> decision.whitelistConfigured,
     consulted |-> decision.consulted]

Outcome(r, session) == [resp |-> r, session |-> session]

\* mutant: the denied user is redirected with the session left in place
callbackGET_KeepSession(op, list, env, session, hasCode, configOk, exchangeError, who, getUserFails, table, lookupError) ==
    IF ~hasCode
    THEN Outcome(AuthResp(op, 307, "/", <<>>, FALSE, Null, FALSE, NoDecision),
                 session)
    ELSE IF ~configOk
    THEN Outcome(AuthResp(op, 307, "/?error=config", <<>>, FALSE, Null, FALSE,
                          NoDecision), session)
    ELSE IF exchangeError
    THEN Outcome(AuthResp(op, 307, "/?error=auth", <<"exchangeCodeForSession">>,
                          FALSE, Null, FALSE, NoDecision), session)
    ELSE LET user == IF getUserFails THEN Null ELSE who
         IN  IF ~Truthy(user)
             THEN Outcome(AuthResp(op, 307, "/?error=noemail",
                                   <<"exchangeCodeForSession", "getUser",
                                     "signOut">>,
                                   FALSE, Null, FALSE, NoDecision), Null)
             ELSE LET d == whitelistDecision(list, env, user, table,
                                             lookupError)
                  IN  IF d.whitelistConfigured /\ ~d.isAllowed
                      THEN Outcome(AuthResp(op, 307, "/?error=unauthorized",
                                            <<"exchangeCodeForSession",
                                              "getUser">>,
                                            TRUE, user,
                                            d.consulted /\ lookupError, d),
                                   who)
                      ELSE Outcome(AuthResp(op, 307, "/",
                                            <<"exchangeCodeForSession",
                                              "getUser">>,
                                            TRUE, user, FALSE, d), who)

\* GET /auth/callback on the parsed list. session is the e-mail of the user the
\* cookies hold a session for (Null: none, <<>>: a user without an e-mail);
\* who is the user the code is exchanged for.
callbackGET(op, list, env, session, hasCode, configOk, exchangeError, who, getUserFails, table, lookupError) ==
    IF ~hasCode
    THEN Outcome(AuthResp(op, 307, "/", <<>>, FALSE, Null, FALSE, NoDecision),
                 session)
    ELSE IF ~configOk
    THEN Outcome(AuthResp(op, 307, "/?error=config", <<>>, FALSE, Null, FALSE,
                          NoDecision), session)
    ELSE IF exchangeError
    THEN Outcome(AuthResp(op, 307, "/?error=auth", <<"exchangeCodeForSession">>,
                          FALSE, Null, FALSE, NoDecision), session)
    ELSE LET user == IF getUserFails THEN Null ELSE who
         IN  IF ~Truthy(user)
             THEN Outcome(AuthResp(op, 307, "/?error=noemail",
                                   <<"exchangeCodeForSession", "getUser",
                                     "signOut">>,
                                   FALSE, Null, FALSE, NoDecision), Null)
             ELSE LET d == whitelistDecision(list, env, user, table,
                                             lookupError)
                  IN  IF d.whitelistConfigured /\ ~d.isAllowed
                      THEN Outcome(AuthResp(op, 307, "/?error=unauthorized",
                                            <<"exchangeCodeForSession",
                                              "getUser", "signOut">>,
                                            TRUE, user,
                                            d.consulted /\ lookupError, d),
                                   Null)
                      ELSE Outcome(AuthResp(op, 307, "/",
                                            <<"exchangeCodeForSession",
                                              "getUser">>,
                                            TRUE, user, FALSE, d), who)

\* GET /api/check-auth
checkAuthGET(env, session, configOk, userError, table, lookupError) ==
    IF ~configOk
    THEN AuthResp("check-auth", 500, "", <<>>, FALSE, Null, FALSE, NoDecision)
    ELSE IF userError \/ ~Truthy(session)
    THEN AuthResp("check-auth", 200, "not_authenticated", <<"getUser">>, FALSE,
                  Null, FALSE, NoDecision)
    ELSE LET d == whitelistDecision(allowedEmailsEnv(env), env, session, table,
                                    lookupError)
         IN  AuthResp("check-auth", 200, "", <<"getUser">>, TRUE, session,
                      d.consulted /\ lookupError, d)

AuthPage(env, table, session) ==
    [phase |-> "auth", env |-> env, allowed_users |-> table,
     session |-> session]

InitAuth ==
    /\ ledger = <<>>
    /\ req = NoReq
    /\ resp = NoResp
    /\ \E env \in Envs, table \in AllowedUsers :
          page = AuthPage(env, table, Null)

\* app/auth/callback/route.ts
AuthCallback ==
    /\ resp = NoResp
    /\ \E hasCode, configOk, exchangeError, getUserFails, lookupError \in BOOLEAN, who \in Emails \cup {<<>>} :
          LET out == callbackGET("callback", allowedEmailsEnv(page.env),
                                 page.env, page.session, hasCode, configOk,
                                 exchangeError, who, getUserFails,
                                 page.allowed_users, lookupError)
          IN  /\ req' = [op |-> "callback", code |-> hasCode]
              /\ resp' = out.resp
              /\ page' = [page EXCEPT !.session = out.session]
    /\ UNCHANGED ledger

\* the callback that parses ALLOWED_EMAILS without dropping empty entries
AuthCallbackUnfiltered ==
    /\ resp = NoResp
    /\ \E hasCode, configOk, exchangeError, getUserFails, lookupError \in BOOLEAN, who \in Emails \cup {<<>>} :
          LET out == callbackGET("callback-unfiltered",
                                 allowedEmailsEnvUnfiltered(page.env),
                                 page.env, page.session, hasCode, configOk,
                                 exchangeError, who, getUserFails,
                                 page.allowed_users, lookupError)
          IN  /\ req' = [op |-> "callback-unfiltered", code |-> hasCode]
              /\ resp' = out.resp
              /\ page' = [page EXCEPT !.session = out.session]
    /\ UNCHANGED ledger

CheckAuth ==
    /\ resp = NoResp
    /\ \E configOk, userError, lookupError \in BOOLEAN :
          /\ req' = [op |-> "check-auth", code |-> FALSE]
          /\ resp' = checkAuthGET(page.env, page.session, configOk, userError,
                                  page.allowed_users, lookupError)
    /\ UNCHANGED <<ledger, page>>

IsEmailAllowed ==
    /\ resp = NoResp
    /\ \E email \in Emails, credentials, lookupError \in BOOLEAN :
          LET d == isEmailAllowed(page.env, email, page.allowed_users,
                                  credentials, lookupError)
          IN  /\ req' = [op |-> "isEmailAllowed", code |-> FALSE]
              /\ resp' = AuthResp("isEmailAllowed", 0, "", <<>>, TRUE, email,
                                  page.env.USE_ALLOWED_USERS_TABLE = True
                                    /\ (~credentials \/ lookupError), d)
    /\ UNCHANGED <<ledger, page>>

NextAuth ==
    AuthCallback \/ AuthCallbackUnfiltered \/ CheckAuth \/ IsEmailAllowed
      \/ Deliver

SpecAuth == InitAuth /\ [][NextAuth]_vars

-----------------------------------------------------------------------------
(* The claims about the whitelist, under SpecAuth *)

C19_Ops == {"callback", "check-auth", "isEmailAllowed"}

C19_InList(env, email) ==
    \E i \in 1..Len(allowedEmailsEnvUnfiltered(env)) :
        allowedEmailsEnvUnfiltered(env)[i] = toLowerCase(email)

\* C19: whenever lib/auth.ts, the callback or check-auth decides about an
\* e-mail and no lookup failed: with ALLOWED_EMAILS set, the e-mail is allowed
\* exactly when its lower-cased form is an entry of the list, and allowed_users
\* is not consulted; with ALLOWED_EMAILS not set and USE_ALLOWED_USERS_TABLE
\* "true", it is allowed exactly when allowed_users holds it; with neither, it
\* is allowed.
C19_WhitelistPriority ==
    (resp.op \in C19_Ops /\ resp.decided /\ ~resp.fault) =>
        IF page.env.ALLOWED_EMAILS # Null
        THEN /\ resp.isAllowed = C19_InList(page.env, resp.email)
             /\ ~resp.consulted
        ELSE IF page.env.USE_ALLOWED_USERS_TABLE = True
        THEN resp.isAllowed = (toLowerCase(resp.email) \in page.allowed_users)
        ELSE resp.isAllowed

C20_Callbacks == {"callback", "callback-unfiltered"}

\* a whitelist is configured: the list has an entry or the table is switched on
C20_Configured ==
    \/ Len(allowedEmailsEnv(page.env)) > 0
    \/ page.env.USE_ALLOWED_USERS_TABLE = True

\* the e-mail is on the configured whitelist
C20_Whitelisted(email) ==
    IF Len(allowedEmailsEnv(page.env)) > 0
    THEN C19_InList(page.env, email)
    ELSE toLowerCase(email) \in page.allowed_users

C20_DeniedRun ==
    /\ resp.op \in C20_Callbacks
    /\ resp.decided
    /\ C20_Configured
    /\ ~C20_Whitelisted(resp.email)

-----------------------------------------------------------------------------
(* The Zapier webhook with its secret, its body parsing and both tables *)

secretS == <<"s", "3">>

\* process.env.ZAPIER_WEBHOOK_SECRET, Null when undefined
ExpectedSecrets == {Null, <<>>, secretS}

\* request.headers.get("x-webhook-secret"), Null when the header is missing
WebhookSecrets == {Null, <<>>, secretS, <<"x">>}

\* the most feed items the model lets the webhook insert
MaxFeed == 2

\* mutant: the header is never compared
secretRejected_Never(expectedSecret, webhookSecret) == FALSE

\* expectedSecret && webhookSecret !== expectedSecret
secretRejected(expectedSecret, webhookSecret) ==
    Truthy(expectedSecret) /\ webhookSecret # expectedSecret

SecretPayloads ==
    { ZapierBody(idPi, Null, a, Undefined, Undefined, nok, Null, TRUE)
        : a \in {Num(3999), Str(<<"7", "7", ".", "5", "0">>)} }
    \cup { ZapierBody(Null, idC, Num(0), Undefined, Undefined, Null, USD, TRUE),
           ZapierBody(Null, Null, Num(3999), Undefined, Undefined, Null, Null,
                      TRUE),
           ZapierBody(idPi, Null, Undefined, Undefined, Undefined, Null, Null,
                      TRUE) }

\* The whole POST: request.json() first (a body that does not parse is answered
\* 400 by the catch), then the secret, then the write to transactions or to
\* feed_items. feed is the number of rows of feed_items.
zapierRequest(jsonOk, expectedSecret, webhookSecret, body, table, feed, unavailable) ==
    IF ~jsonOk
    THEN [resp |-> ZapierResp(400, "none", Null), table |-> table,
          feed |-> feed]
    ELSE LET out == zapierPOST(
                        [body EXCEPT !.secretOk =
                             ~secretRejected(expectedSecret, webhookSecret)],
                        table, unavailable)
         IN  [resp |-> out.resp, table |-> out.table,
              feed |-> IF out.resp.type = "feed" /\ out.resp.status = 200
                       THEN feed + 1 ELSE feed]

SecretPage(expectedSecret, feed) ==
    [phase |-> "zapier", secret |-> expectedSecret, feed_items |-> feed]

InitSecret ==
    /\ ledger = <<>>
    /\ req = NoReq
    /\ resp = NoResp
    /\ \E expectedSecret \in ExpectedSecrets :
          page = SecretPage(expectedSecret, 0)

ZapierRequest ==
    /\ resp = NoResp
    /\ \E jsonOk, unavailable \in BOOLEAN, webhookSecret \in WebhookSecrets, body \in SecretPayloads :
          LET out == zapierRequest(jsonOk, page.secret, webhookSecret, body,
                                   ledger, page.feed_items, unavailable)
          IN  /\ out.feed <= MaxFeed
              /\ req' = [op |-> "zapier", body |-> body,
                         header |-> webhookSecret, jsonOk |-> jsonOk]
              /\ resp' = out.resp
              /\ ledger' = out.table
              /\ page' = SecretPage(page.secret, out.feed)

NextSecret == ZapierRequest \/ Deliver

SpecSecret == InitSecret /\ [][NextSecret]_vars

C21_Request == resp = NoResp /\ resp' # NoResp

C21_WrongSecret == Truthy(page.secret) /\ req'.header # page.secret

C21_NothingWritten ==
    ledger' = ledger /\ page'.feed_items = page.feed_items

\* C21 as stated: with a secret configured, every request whose header is
\* missing or different is answered 401 and leaves both tables as they were.
C21_WrongSecretAnswered401 ==
    [][(C21_Request /\ C21_WrongSecret) =>
          (resp'.status = 401 /\ C21_NothingWritten)]_vars

\* C21: with a secret configured, a request whose header is missing or
\* different leaves transactions and feed_items as they were and is answered
\* 401 when its body parses and 400 when it does not (the body is parsed before
\* the secret is looked at); a request that changes a table carries the secret.
C21_WrongSecretWritesNothing ==
    [][C21_Request =>
          /\ C21_WrongSecret =>
                /\ C21_NothingWritten
                /\ resp'.status = (IF req'.jsonOk THEN 401 ELSE 400)
          /\ (Truthy(page.secret) /\ ~C21_NothingWritten) =>
                req'.header = page.secret]_vars

\* a request with the wrong secret was refused while the tables hold rows
C21_Witness ==
    /\ Truthy(page.secret)
    /\ req.op = "zapier"
    /\ req.header # page.secret
    /\ req.jsonOk
    /\ resp.status = 401
    /\ ledger # <<>>
    /\ page.feed_items > 0

-----------------------------------------------------------------------------
(* SpecResave: a batch is saved, or imported from a Stripe export, and then *)
(* the same batch is sent once more                                         *)

\* the longest batch that is sent twice, and the saves before the last one
MaxResave == 2
MaxEarlier == 2

\* what the caller keeps: the batch sent last, the answer it got, the table
\* as that request left it, how many batches were sent, whether the last one
\* has been sent a second time
ResavePage(body, first, after, sent, again) ==
    [phase |-> "resave", body |-> body, first |-> first, after |-> after,
     sent |-> sent, again |-> again]

InitResave ==
    /\ ledger = <<>>
    /\ req = NoReq
    /\ resp = NoResp
    /\ page = ResavePage(NoReq, NoResp, <<>>, 0, FALSE)

ResaveBodies(op, inputs) ==
    {[op |-> op, isArray |-> TRUE, transactions |-> b] :
        b \in SeqsOf(inputs, 1, MaxResave)}

SaveFailures == Failures({"stripe", "archive", "source", "insert"})

StripeFailures == Failures({"projects", "check", "insert"})

SaveBatch ==
    /\ resp = NoResp
    /\ ~page.again
    /\ page.sent < MaxEarlier
    /\ \E body \in ResaveBodies("save-transactions", SaveInputs), failed \in SaveFailures :
           LET out == saveTransactionsPOST(body, ledger, "stripe" \in failed,
                                           "archive" \in failed,
                                           "source" \in failed,
                                           "insert" \in failed)
           IN  /\ req' = body
               /\ resp' = out.resp
               /\ ledger' = out.table
               /\ page' = ResavePage(body, out.resp, out.table, page.sent + 1,
                                     FALSE)

SaveAgain ==
    /\ resp = NoResp
    /\ ~page.again
    /\ page.body.op = "save-transactions"
    /\ \E failed \in SaveFailures :
           LET out == saveTransactionsPOST(page.body, ledger, "stripe" \in failed,
                                           "archive" \in failed,
                                           "source" \in failed,
                                           "insert" \in failed)
           IN  /\ req' = page.body
               /\ resp' = out.resp
               /\ ledger' = out.table
               /\ page' = [page EXCEPT !.again = TRUE]

ImportStripeBatch ==
    /\ resp = NoResp
    /\ ~page.again
    /\ page.sent < MaxEarlier
    /\ \E body \in ResaveBodies("import-stripe-csv", StripeCsvInputs), failed \in StripeFailures :
           LET out == importStripeCsvPOST(body, ledger, "projects" \in failed,
                                          "check" \in failed,
                                          "insert" \in failed)
           IN  /\ req' = body
               /\ resp' = out.resp
               /\ ledger' = out.table
               /\ page' = ResavePage(body, out.resp, out.table, page.sent + 1,
                                     FALSE)

ImportStripeAgain ==
    /\ resp = NoResp
    /\ ~page.again
    /\ page.body.op = "import-stripe-csv"
    /\ \E failed \in StripeFailures :
           LET out == importStripeCsvPOST(page.body, ledger,
                                          "projects" \in failed,
                                          "check" \in failed,
                                          "insert" \in failed)
           IN  /\ req' = page.body
               /\ resp' = out.resp
               /\ ledger' = out.table
               /\ page' = [page EXCEPT !.again = TRUE]

NextResave ==
    SaveBatch \/ SaveAgain \/ ImportStripeBatch \/ ImportStripeAgain \/ Deliver

SpecResave == InitResave /\ [][NextResave]_vars

\* the second answer to a batch whose first answer was a success
C22_SecondAnswer ==
    /\ page.again
    /\ resp # NoResp
    /\ page.first.status = 200

\* a row handed to insert repeats a reference the table held before the request
C22_Repeats(r, table) ==
    \E i \in 1..Len(table) :
        /\ table[i].source_type = r.source_type
        /\ \/ /\ r.source_type \in {"stripe", "bank"}
              /\ Truthy(r.source_reference)
              /\ table[i].source_reference = r.source_reference
           \/ /\ r.source_type = "bank"
              /\ Truthy(r.archive_reference)
              /\ table[i].archive_reference = r.archive_reference

\* C22: when a batch that was saved with success is sent again, no row whose
\* stripe source_reference, bank archive_reference or bank source_reference
\* is already in the table is written, the second answer reports imported 0
\* and the table is as the first request left it.
C22_SecondSaveImportsNothing ==
    C22_SecondAnswer =>
        /\ resp.written =>
              \A k \in 1..Len(resp.inserted) :
                  ~C22_Repeats(resp.inserted[k], page.after)
        /\ resp.imported = 0
        /\ ledger = page.after

-----------------------------------------------------------------------------
(* The claims about the scan of check-duplicates, under SpecMatch *)

\* the rows that match candidate i under any tier
C23_Matching(i) ==
    {k \in 1..Len(ledger) : transactionMatches(ValidOfReq[i], ledger[k])}

C23_First(i) ==
    CHOOSE k \in C23_Matching(i) : \A n \in C23_Matching(i) : k <= n

\* how many candidates up to candidate i have a matching row
C23_Pos(i) == Cardinality({j \in 1..i : C23_Matching(j) # {}})

\* C23: the match details hold one entry for each candidate that has a
\* matching row and none for the others, in candidate order, and the entry of
\* a candidate names the first row, in the order the rows were read, that
\* matches it under any tier, whatever later rows match.
C23_FirstMatchingRowOnly ==
    CheckDone =>
        /\ Len(resp.matchDetails) = C23_Pos(Len(ValidOfReq))
        /\ \A i \in 1..Len(ValidOfReq) :
              C23_Matching(i) # {} =>
                  /\ resp.matchDetails[C23_Pos(i)].extractedId
                       = extractedIdOf(ValidOfReq[i])
                  /\ resp.matchDetails[C23_Pos(i)].matchedId
                       = dbIdOf(ledger[C23_First(i)])

\* two rows with different identifiers match the one candidate; the detail
\* names the first of them
C23_Witness ==
    /\ CheckDone
    /\ Len(ValidOfReq) = 1
    /\ C23_Matching(1) = {1, 2}
    /\ dbIdOf(ledger[1]) # dbIdOf(ledger[2])
    /\ Len(resp.matchDetails) = 1
    /\ resp.matchDetails[1].matchedId = dbIdOf(ledger[1])


\* C24: the matchType of a detail names the tier that made the match:
\* archive_reference only when the candidate's and the row's archive
\* references are equal after normalization, payment_id only when the payment
\* id equals the row's source_reference after normalization, and
\* amount_currency in every other case.
C24_MatchTypeNamesTier ==
    CheckDone =>
        \A i \in 1..Len(ValidOfReq) :
            C23_Matching(i) # {} =>
                LET e == ValidOfReq[i]
                    row == ledger[C23_First(i)]
                    matchType == resp.matchDetails[C23_Pos(i)].matchType
                IN  /\ matchType = "archive_reference" => archiveRefsMatch(e, row)
                    /\ matchType = "payment_id" => stripeIdsMatch(e, row)
                    /\ (~archiveRefsMatch(e, row) /\ ~stripeIdsMatch(e, row))
                          => matchType = "amount_currency"

-----------------------------------------------------------------------------
(* The claims about the preview flags and the amounts checked, under SpecPage *)

\* a preview computed from an answered check is on the page
C25_Previewed ==
    /\ page.phase = "preview"
    /\ page.component = "ImportPage"
    /\ resp.op = "check-duplicates"
    /\ resp.status = 200

\* check-duplicates matched candidate i of the request against a row
C25_MatchedItself(i) ==
    /\ IsValidTransaction(req.transactions[i])
    /\ \E k \in 1..Len(ledger) : transactionMatches(req.transactions[i], ledger[k])

\* C25: in the preview of the import page, a transaction is flagged as
\* existing only if check-duplicates matched that very candidate against a
\* row of the table.
C25_FlaggedOnlyIfMatched ==
    C25_Previewed =>
        \A i \in 1..Len(page.transactions) :
            page.transactions[i].exists = "true" => C25_MatchedItself(i)


\* the transactions of a preview of the import page were sent to the check
C26_Checked ==
    /\ page.phase = "preview"
    /\ page.component = "ImportPage"
    /\ req.op = "check-duplicates"

\* the amount save would store for transaction i of the preview; -1 when the
\* importer would reject the record
C26_StoredAmount(i) ==
    LET t == page.transactions[i]
    IN  IF page.mode = "screenshot"
        THEN transactionToSave(t, page.isExpenseImport).amount
        ELSE IF t.csvFormat = "bank"
        THEN (IF bankRow(t, <<"x">>).ok THEN bankRow(t, <<"x">>).row.amount
              ELSE -1)
        ELSE (IF stripeRow(t).ok THEN stripeRow(t).row.amount ELSE -1)

\* C26: for every screenshot-extracted or CSV-parsed transaction of the import
\* page that the importer would store, the amount sent to check-duplicates is
\* the minor-unit amount that would be stored for it.
C26_CheckedAmountIsStoredAmount ==
    C26_Checked =>
        \A i \in 1..Len(page.transactions) :
            C26_StoredAmount(i) # -1 =>
                req.transactions[i].amount = C26_StoredAmount(i)

-----------------------------------------------------------------------------
(* The claims about the whitelist procedures, under SpecAuth *)

C27_Ops == {"callback", "callback-unfiltered", "check-auth", "isEmailAllowed"}

\* C27: whenever one of the whitelist procedures (lib/auth.ts, the callback
\* in both of its versions, check-auth) has decided about an e-mail without a
\* failed lookup, its allow/deny decision is the one isEmailAllowed reaches
\* and the one the callback and check-auth reach for the same environment,
\* table and e-mail.
C27_ProceduresAgree ==
    (resp.op \in C27_Ops /\ resp.decided /\ ~resp.fault) =>
        /\ resp.isAllowed
             = isEmailAllowed(page.env, resp.email, page.allowed_users, TRUE,
                              FALSE).isAllowed
        /\ resp.isAllowed
             = whitelistDecision(allowedEmailsEnv(page.env), page.env,
                                 resp.email, page.allowed_users,
                                 FALSE).isAllowed


\* the table decides and it could not be read: the lookup failed with an
\* error other than "no rows found", or lib/auth.ts has no credentials
C28_LookupFailed ==
    /\ resp.op \in C27_Ops
    /\ resp.decided
    /\ page.env.ALLOWED_EMAILS = Null
    /\ page.env.USE_ALLOWED_USERS_TABLE = True
    /\ resp.fault

\* C28: with USE_ALLOWED_USERS_TABLE "true" and ALLOWED_EMAILS not set, a
\* decision taken after a failed lookup of allowed_users, or without Supabase
\* credentials in isEmailAllowed, is deny; in the callback the user is then
\* redirected to /?error=unauthorized and left without a session.
C28_TableFailsClosed ==
    C28_LookupFailed =>
        /\ ~resp.isAllowed
        /\ resp.op \in C20_Callbacks =>
              /\ resp.redirect = "/?error=unauthorized"
              /\ page.session = Null

\* the table holds the e-mail, the lookup failed, check-auth answered deny
C28_Witness ==
    /\ C28_LookupFailed
    /\ resp.op = "check-auth"
    /\ toLowerCase(resp.email) \in page.allowed_users
    /\ ~resp.isAllowed

-----------------------------------------------------------------------------
(* SpecRace: two requests that carry the same new Stripe reference run at   *)
(* the same time; every await of a handler is a step of its own             *)

\* the longest batch of a racing request
MaxRace == 2

\* the rows save-transactions makes of a body, <<>> when the map throws
raceSaveRows(body) ==
    IF \E i \in 1..Len(body.transactions) : body.transactions[i].currency = Null
    THEN <<>>
    ELSE saveRows(body.transactions)

raceRows(body) ==
    IF body.op = "save-transactions" THEN raceSaveRows(body)
    ELSE stripeRows(body.transactions, 1)

\* a request carries the reference: one of its rows is a stripe row with it
carries(body, ref) ==
    \E i \in 1..Len(raceRows(body)) :
        /\ raceRows(body)[i].source_type = "stripe"
        /\ raceRows(body)[i].source_reference = ref

RaceBodies ==
    {b \in ResaveBodies("save-transactions", SaveInputs)
           \cup ResaveBodies("import-stripe-csv", StripeCsvInputs) :
        Len(b.transactions) <= MaxRace /\ carries(b, idA)}

\* The two requests in flight: where each handler stands (pc), the references
\* and new rows it has gathered, and the order in which the inserts were made.
RacePage(pc, existingRefs, newTransactions, inserts) ==
    [phase |-> "race", pc |-> pc, existingRefs |-> existingRefs,
     newTransactions |-> newTransactions, inserts |-> inserts]

RaceResp(answers) == [op |-> "race", answers |-> answers]

InitRace ==
    /\ ledger = <<>>
    /\ \E b1 \in RaceBodies, b2 \in RaceBodies :
          req = [op |-> "race", bodies |-> <<b1, b2>>]
    /\ resp = RaceResp(<<NoResp, NoResp>>)
    /\ page = RacePage(<<"start", "start">>, <<{}, {}>>, <<<<>>, <<>>>>, <<>>)

raceAnswer(p, answer, pc) ==
    /\ resp' = RaceResp([resp.answers EXCEPT ![p] = answer])
    /\ page' = [page EXCEPT !.pc[p] = pc]

\* save-transactions up to its first select: route.ts:6-59
RaceSaveStart ==
    \E p \in 1..2 :
        /\ page.pc[p] = "start"
        /\ req.bodies[p].op = "save-transactions"
        /\ IF raceSaveRows(req.bodies[p]) = <<>>
           THEN raceAnswer(p, PersistError("save-transactions", 500, 0), "done")
           ELSE /\ page' = [page EXCEPT !.pc[p] = "stripe"]
                /\ UNCHANGED resp
        /\ UNCHANGED <<ledger, req>>

\* one of the three selects of save-transactions: route.ts:59-109
RaceSaveSelect ==
    \E p \in 1..2, failed \in BOOLEAN :
        LET rows == raceSaveRows(req.bodies[p])
            found ==
                IF page.pc[p] = "stripe"
                THEN saveExistingStripe(rows, ofType(rows, "stripe"), ledger,
                                        failed)
                ELSE IF page.pc[p] = "archive"
                THEN saveExistingBankByArchive(rows, ofType(rows, "bank"),
                                               ledger, failed)
                ELSE saveExistingBankBySource(rows, ofType(rows, "bank"),
                                              ledger, failed)
        IN  /\ page.pc[p] \in {"stripe", "archive", "source"}
            /\ page' = [page EXCEPT
                          !.pc[p] = IF page.pc[p] = "stripe" THEN "archive"
                                    ELSE IF page.pc[p] = "archive" THEN "source"
                                    ELSE "insert",
                          !.existingRefs[p] = @ \cup truthyRefs(found)]
            /\ UNCHANGED <<ledger, req, resp>>

\* the filter, the insert and the answer of save-transactions: route.ts:111-162
RaceSaveInsert ==
    \E p \in 1..2, insertFails \in BOOLEAN :
        LET rows == raceSaveRows(req.bodies[p])
            out == saveWrite(req.bodies[p].transactions, rows,
                             saveNewTransactions(rows, page.existingRefs[p]),
                             ledger, insertFails)
        IN  /\ page.pc[p] = "insert"
            /\ req.bodies[p].op = "save-transactions"
            /\ ledger' = out.table
            /\ resp' = RaceResp([resp.answers EXCEPT ![p] = out.resp])
            /\ page' = [page EXCEPT !.pc[p] = "done",
                                    !.inserts = Append(@, p)]
            /\ UNCHANGED req

\* import-stripe-csv up to its check: part_009:60-131
RaceImportStart ==
    \E p \in 1..2, projectsFails \in BOOLEAN :
        /\ page.pc[p] = "start"
        /\ req.bodies[p].op = "import-stripe-csv"
        /\ IF projectsFails
           THEN raceAnswer(p, PersistError("import-stripe-csv", 500, 0), "done")
           ELSE /\ page' = [page EXCEPT !.pc[p] = "check"]
                /\ UNCHANGED resp
        /\ UNCHANGED <<ledger, req>>

\* the check of import-stripe-csv: part_009:133-154
RaceImportCheck ==
    \E p \in 1..2, checkFails \in BOOLEAN :
        LET rows == stripeRows(req.bodies[p].transactions, 1)
        IN  /\ page.pc[p] = "check"
            /\ IF checkFails
               THEN raceAnswer(p, PersistError("import-stripe-csv", 500, 0),
                               "done")
               ELSE /\ page' = [page EXCEPT
                                  !.pc[p] = "insert",
                                  !.newTransactions[p] =
                                      stripeNewTransactions(rows, ledger)]
                    /\ UNCHANGED resp
            /\ UNCHANGED <<ledger, req>>

\* the insert and the answer of import-stripe-csv: part_009:156-183
RaceImportInsert ==
    \E p \in 1..2, insertFails \in BOOLEAN :
        LET rows == stripeRows(req.bodies[p].transactions, 1)
            out == stripeWrite(Len(rows),
                               Len(req.bodies[p].transactions) - Len(rows),
                               page.newTransactions[p], ledger, insertFails)
        IN  /\ page.pc[p] = "insert"
            /\ req.bodies[p].op = "import-stripe-csv"
            /\ ledger' = out.table
            /\ resp' = RaceResp([resp.answers EXCEPT ![p] = out.resp])
            /\ page' = [page EXCEPT !.pc[p] = "done",
                                    !.inserts = Append(@, p)]
            /\ UNCHANGED req

NextRace ==
    \/ RaceSaveStart
    \/ RaceSaveSelect
    \/ RaceSaveInsert
    \/ RaceImportStart
    \/ RaceImportCheck
    \/ RaceImportInsert

SpecRace == InitRace /\ [][NextRace]_vars


\* the rows of the table with the stripe reference both requests carry
C29_Rows ==
    {i \in 1..Len(ledger) :
        ledger[i].source_type = "stripe" /\ ledger[i].source_reference = idA}

\* request p handed a row with the reference to insert
C29_Inserted(p) ==
    /\ resp.answers[p] # NoResp
    /\ \E k \in 1..Len(resp.answers[p].inserted) :
          /\ resp.answers[p].inserted[k].source_type = "stripe"
          /\ resp.answers[p].inserted[k].source_reference = idA

\* both requests read before either wrote, and both have answered
C29_BothRaced ==
    /\ page.pc = <<"done", "done">>
    /\ C29_Inserted(1)
    /\ C29_Inserted(2)

\* C29: under every interleaving of two save-transactions or
\* import-stripe-csv requests that carry the same new stripe
\* source_reference, the table never holds two rows with it; when both
\* requests found it new and handed it to insert, at most one insert went
\* through, and once the earlier insert has gone through the table ends with
\* exactly one row for the reference and the later request is answered with
\* an error (500) and has written nothing.
C29_OneRowPerReference ==
    /\ Cardinality(C29_Rows) <= 1
    /\ C29_BothRaced =>
          LET first == page.inserts[1]
              later == page.inserts[2]
          IN  /\ ~(resp.answers[first].written /\ resp.answers[later].written)
              /\ resp.answers[first].written =>
                    /\ Cardinality(C29_Rows) = 1
                    /\ resp.answers[later].status = 500
                    /\ ledger = resp.answers[first].inserted

\* both requests found the reference new; the first insert went through and
\* the second was refused
C29_Witness ==
    /\ C29_BothRaced
    /\ resp.answers[page.inserts[1]].status = 200
    /\ resp.answers[page.inserts[2]].status = 500
    /\ Cardinality(C29_Rows) = 1
    /\ req.bodies[1].op # req.bodies[2].op

-----------------------------------------------------------------------------
(* The counters of the persistence answers, under Spec *)

C30_Ops == {"save-transactions", "import-stripe-csv", "import-bank-csv"}

\* a handler answers with success in this step
C30_Success ==
    /\ resp = NoResp
    /\ resp'.op \in C30_Ops
    /\ resp'.status = 200

\* the rows of the request that passed normalization, the records of a bank
\* file drawing the suffixes random for their generated references
C30_NormalizedWith(random) ==
    IF req'.op = "save-transactions" THEN saveRows(req'.transactions)
    ELSE IF req'.op = "import-stripe-csv" THEN stripeRows(req'.transactions, 1)
    ELSE bankRows(req'.transactions, random, 1)

\* the suffixes the records of the request can draw
C30_Randoms == [1..Len(req'.transactions) -> RandomSuffixes]

\* the number of normalized rows does not depend on the suffixes
C30_Normalized ==
    C30_NormalizedWith([i \in 1..Len(req'.transactions) |-> <<"x">>])

\* a row of the same source type with a reference of r is in the table
C30_Exists(r) ==
    /\ r.source_type \in {"stripe", "bank"}
    /\ \E i \in 1..Len(ledger) :
          /\ ledger[i].source_type = r.source_type
          /\ \/ /\ Truthy(r.source_reference)
                /\ ledger[i].source_reference = r.source_reference
             \/ /\ r.source_type = "bank"
                /\ Truthy(r.archive_reference)
                /\ ledger[i].archive_reference = r.archive_reference

\* every normalized row of the request is in the table already, whatever
\* suffixes its generated references drew
C30_AllExist ==
    \A random \in C30_Randoms :
        \A k \in 1..Len(C30_NormalizedWith(random)) :
            C30_Exists(C30_NormalizedWith(random)[k])

C30_Counters ==
    /\ resp'.imported + resp'.skipped = Len(C30_Normalized)
    /\ Len(ledger') = Len(ledger) + resp'.imported
    /\ SubSeq(ledger', 1, Len(ledger)) = ledger

\* C30 as stated: in every success answer imported + skipped is the number of
\* rows that passed normalization, imported is the number of rows the request
\* added to the table, and when every normalized row already exists in the
\* table the answer has imported 0 and nothing is inserted.
C30_CountersAndNoInsert ==
    [][C30_Success =>
          /\ C30_Counters
          /\ C30_AllExist => (resp'.imported = 0 /\ ledger' = ledger)]_vars

=============================================================================
